---- MODULE Spec2Model ----
(***************************************************************************)
(* Timetable-Management: the calendar builder (services/config_service.py) *)
(* and the greedy scheduling engine (services/scheduler.py).               *)
(*                                                                         *)
(* Times of day are minutes since midnight (09:00 = 540): the code parses  *)
(* '%H:%M' strings, adds timedeltas and formats back; no slot ever passes  *)
(* the shift end, so two formatted times are equal exactly when their      *)
(* minute counts are.  A faculty availability string is a sequence of      *)
(* tokens: day names and the separators "-" and ",".                       *)
(***************************************************************************)
EXTENDS Integers, Sequences, FiniteSets, TLC

\* ------------------------------------------------------------------ bounds
MaxLectureHours == 2
MaxLabHours == 2

\* ------------------------------------------------------- program constants
SlotMinutes == 60
ShortBreakMinutes == 15
LunchBreakMinutes == 45
ShortBreakSlot == 3
LunchBreakSlot == 5
max_consecutive_hours == 3
LabMinCapacity == 30
ClassMinCapacity == 50
DefaultMaxHours == 24

\* ------------------------------------------------------------ small helpers
Range(s) == {s[i] : i \in 1..Len(s)}

Abs(x) == IF x < 0 THEN -x ELSE x

RECURSIVE SumOver(_, _)
SumOver(f, S) ==
  IF S = {} THEN 0
  ELSE LET x == CHOOSE y \in S : TRUE IN f[x] + SumOver(f, S \ {x})

\* ------------------------------------------------- calendar: config_service
WeekDays == <<"Monday", "Tuesday", "Wednesday", "Thursday", "Friday">>

AllDays == WeekDays \o <<"Saturday">>

\* generate_time_slots: "Determine days"
WorkingDays(working_days) ==
  IF working_days = "Mon-Fri" THEN WeekDays ELSE AllDays

\* the while loop with the lunch break in every mode
RECURSIVE ShiftDaySlots_lunch_always(_, _, _, _)
ShiftDaySlots_lunch_always(shift_mode, slot_number, current_time, end_time) ==
  IF ~(current_time < end_time) THEN <<>>
  ELSE
    LET is_break == IF slot_number \in {ShortBreakSlot, LunchBreakSlot}
                    THEN 1 ELSE 0
        slot_end == IF slot_number = ShortBreakSlot
                    THEN current_time + ShortBreakMinutes
                    ELSE IF slot_number = LunchBreakSlot
                         THEN current_time + LunchBreakMinutes
                         ELSE current_time + SlotMinutes
    IN IF slot_end > end_time THEN <<>>
       ELSE <<[slot_number |-> slot_number, start_time |-> current_time,
               end_time |-> slot_end, is_break |-> is_break]>>
            \o ShiftDaySlots_lunch_always(shift_mode, slot_number + 1, slot_end,
                                          end_time)

\* the while loop keeping the slot that runs past the shift end
RECURSIVE ShiftDaySlots_overrun(_, _, _, _)
ShiftDaySlots_overrun(shift_mode, slot_number, current_time, end_time) ==
  IF ~(current_time < end_time) THEN <<>>
  ELSE
    LET is_break == IF slot_number = ShortBreakSlot THEN 1
                    ELSE IF shift_mode = "single" /\ slot_number = LunchBreakSlot
                         THEN 1 ELSE 0
        slot_end == IF slot_number = ShortBreakSlot
                    THEN current_time + ShortBreakMinutes
                    ELSE IF shift_mode = "single" /\ slot_number = LunchBreakSlot
                         THEN current_time + LunchBreakMinutes
                         ELSE current_time + SlotMinutes
    IN <<[slot_number |-> slot_number, start_time |-> current_time,
          end_time |-> slot_end, is_break |-> is_break]>>
       \o ShiftDaySlots_overrun(shift_mode, slot_number + 1, slot_end, end_time)

\* the while loop of one (shift, day): slot records without id and day
RECURSIVE ShiftDaySlots(_, _, _, _)
ShiftDaySlots(shift_mode, slot_number, current_time, end_time) ==
  IF ~(current_time < end_time) THEN <<>>
  ELSE
    LET is_break == IF slot_number = ShortBreakSlot THEN 1
                    ELSE IF shift_mode = "single" /\ slot_number = LunchBreakSlot
                         THEN 1 ELSE 0
        slot_end == IF slot_number = ShortBreakSlot
                    THEN current_time + ShortBreakMinutes
                    ELSE IF shift_mode = "single" /\ slot_number = LunchBreakSlot
                         THEN current_time + LunchBreakMinutes
                         ELSE current_time + SlotMinutes
    IN IF slot_end > end_time THEN <<>>
       ELSE <<[slot_number |-> slot_number, start_time |-> current_time,
               end_time |-> slot_end, is_break |-> is_break]>>
            \o ShiftDaySlots(shift_mode, slot_number + 1, slot_end, end_time)

\* the "for day in days" loop of one shift
RECURSIVE ShiftSlots(_, _, _)
ShiftSlots(shift_mode, shift, days) ==
  IF days = <<>> THEN <<>>
  ELSE LET one == ShiftDaySlots(shift_mode, 1, shift.start, shift.end)
       IN [i \in 1..Len(one) |->
             [day |-> Head(days), slot_number |-> one[i].slot_number,
              start_time |-> one[i].start_time, end_time |-> one[i].end_time,
              is_break |-> one[i].is_break]]
          \o ShiftSlots(shift_mode, shift, Tail(days))

\* the "for shift in shift_timings" loop (a single shift is a list of one)
RECURSIVE ConfigSlots(_, _, _)
ConfigSlots(shift_mode, shifts, days) ==
  IF shifts = <<>> THEN <<>>
  ELSE ShiftSlots(shift_mode, Head(shifts), days)
       \o ConfigSlots(shift_mode, Tail(shifts), days)

\* the rows generate_time_slots inserts, with their AUTOINCREMENT ids
NewSlotRows(config, first_id) ==
  LET rows == ConfigSlots(config.shift_mode, config.shift_timings,
                          WorkingDays(config.working_days))
  IN [i \in 1..Len(rows) |->
        [id |-> first_id + i - 1, day |-> rows[i].day,
         slot_number |-> rows[i].slot_number,
         start_time |-> rows[i].start_time, end_time |-> rows[i].end_time,
         is_break |-> rows[i].is_break]]

\* generate_time_slots without the DELETE of the configuration's rows
generate_time_slots_keep(table, rows, saved, next_id, cid) ==
  IF cid \notin 1..Len(table)
  THEN [rows |-> rows, saved |-> saved, next_id |-> next_id,
        ok |-> FALSE, message |-> "Configuration not found", count |-> 0]
  ELSE
    LET new == NewSlotRows(table[cid], next_id)
        inserted == [i \in 1..Len(new) |->
                       [id |-> new[i].id, config_id |-> cid, day |-> new[i].day,
                        slot_number |-> new[i].slot_number,
                        start_time |-> new[i].start_time,
                        end_time |-> new[i].end_time,
                        is_break |-> new[i].is_break]]
    IN [rows |-> rows \o inserted, saved |-> saved,
        next_id |-> next_id + Len(new),
        ok |-> TRUE, message |-> "Generated time slots", count |-> Len(new)]

\* generate_time_slots without the "if not config" return: the DELETE runs and
\* an unknown configuration yields no slot
generate_time_slots_unchecked(table, rows, saved, next_id, cid) ==
  LET kept == SelectSeq(rows, LAMBDA r : r.config_id # cid)
      new == IF cid \in 1..Len(table) THEN NewSlotRows(table[cid], next_id)
             ELSE <<>>
      inserted == [i \in 1..Len(new) |->
                     [id |-> new[i].id, config_id |-> cid, day |-> new[i].day,
                      slot_number |-> new[i].slot_number,
                      start_time |-> new[i].start_time,
                      end_time |-> new[i].end_time,
                      is_break |-> new[i].is_break]]
  IN [rows |-> kept \o inserted,
      saved |-> [sid \in DOMAIN saved \cap {kept[i].id : i \in 1..Len(kept)}
                   |-> saved[sid]],
      next_id |-> next_id + Len(new),
      ok |-> TRUE, message |-> "Generated time slots", count |-> Len(new)]

\* generate_time_slots(config_id) on the tables: the rows of timetable_slots,
\* the AUTOINCREMENT counter and the saved assignment columns afterwards, and
\* the returned (success, message, slots_count); the message is modelled
\* without the count it repeats
generate_time_slots(table, rows, saved, next_id, cid) ==
  IF cid \notin 1..Len(table)
  THEN [rows |-> rows, saved |-> saved, next_id |-> next_id,
        ok |-> FALSE, message |-> "Configuration not found", count |-> 0]
  ELSE
    LET kept == SelectSeq(rows, LAMBDA r : r.config_id # cid)
        new == NewSlotRows(table[cid], next_id)
        inserted == [i \in 1..Len(new) |->
                       [id |-> new[i].id, config_id |-> cid, day |-> new[i].day,
                        slot_number |-> new[i].slot_number,
                        start_time |-> new[i].start_time,
                        end_time |-> new[i].end_time,
                        is_break |-> new[i].is_break]]
    IN [rows |-> kept \o inserted,
        saved |-> [sid \in DOMAIN saved \cap {kept[i].id : i \in 1..Len(kept)}
                     |-> saved[sid]],
        next_id |-> next_id + Len(new),
        ok |-> TRUE, message |-> "Generated time slots", count |-> Len(new)]

\* ------------------------------------------------------------------- state
VARIABLES
  \* database tables
  academic_config, timetable_slots, subject_table, faculty_table,
  locations_table,
  \* TimetableScheduler instance (scheduler.py __init__)
  semester, subjects, faculty, available_slots, locations,
  schedule, faculty_load, room_assignments, conflicts, warnings,
  \* position of generate_schedule and the locals of its callees
  pc, subject_index, scheduled, attempts, days_used,
  scheduled_blocks, days_left, lecture_count, results, outcome,
  \* the random source: whether it is seeded, the (length, index) of each
  \* random.choice of this run, and those of the run before
  seeded, rng_calls, rng_tape,
  \* which run this is, and what the run before produced
  run, first_schedule, first_rooms,
  \* the academic_config table (row id = position), the AUTOINCREMENT counter
  \* of timetable_slots, and the calls of generate_time_slots made so far
  config_table, next_slot_id, calls,
  \* self.config_id, the subject_id, faculty_id, slot_type and room_id columns
  \* of timetable_slots as save_schedule wrote them, and the other
  \* TimetableScheduler instance of a second request
  config_id, saved_slots, parked

db_vars == <<academic_config, timetable_slots, subject_table, faculty_table,
             locations_table>>

data_vars == <<semester, subjects, faculty, available_slots, locations>>

assign_vars == <<schedule, faculty_load, room_assignments, warnings>>

lecture_locals == <<scheduled, attempts, days_used>>

lab_locals == <<scheduled_blocks, days_left>>

rng_vars == <<seeded, rng_calls, rng_tape>>

run_vars == <<run, first_schedule, first_rooms>>

calendar_vars == <<config_table, next_slot_id, calls>>

session_vars == <<config_id, saved_slots, parked>>

vars == <<academic_config, timetable_slots, subject_table, faculty_table,
          locations_table, semester, subjects, faculty, available_slots,
          locations, schedule, faculty_load, room_assignments, conflicts,
          warnings, pc, subject_index, scheduled, attempts, days_used,
          scheduled_blocks, days_left, lecture_count, results, outcome,
          seeded, rng_calls, rng_tape, run, first_schedule, first_rooms,
          config_table, next_slot_id, calls, config_id, saved_slots, parked>>

\* ------------------------------------------------------ load_data's queries
\* ORDER BY day: the day column is text, so the order is alphabetical
DayRank(d) ==
  CASE d = "Friday" -> 1 [] d = "Monday" -> 2 [] d = "Saturday" -> 3
    [] d = "Thursday" -> 4 [] d = "Tuesday" -> 5 [] d = "Wednesday" -> 6
    [] OTHER -> 7

\* ORDER BY day, slot_number; rows that tie come in rowid order
SlotRowBefore(a, b) ==
  \/ DayRank(a.day) < DayRank(b.day)
  \/ DayRank(a.day) = DayRank(b.day) /\ a.slot_number < b.slot_number
  \/ DayRank(a.day) = DayRank(b.day) /\ a.slot_number = b.slot_number
     /\ a.id <= b.id

RECURSIVE OrderSlotRows(_)
OrderSlotRows(S) ==
  IF S = {} THEN <<>>
  ELSE LET m == CHOOSE r \in S : \A q \in S : SlotRowBefore(r, q)
       IN <<m>> \o OrderSlotRows(S \ {m})

\* SELECT * FROM timetable_slots WHERE config_id = ? AND is_break = 0
\* ORDER BY day, slot_number
LoadAvailableSlots(rows) ==
  OrderSlotRows({r \in Range(rows) : r.config_id = config_id /\ r.is_break = 0})

RoomTypeRank(t) == IF t = "Classroom" THEN 1 ELSE IF t = "Lab" THEN 2 ELSE 3

LocationBefore(a, b) ==
  \/ RoomTypeRank(a.room_type) < RoomTypeRank(b.room_type)
  \/ RoomTypeRank(a.room_type) = RoomTypeRank(b.room_type)
     /\ a.capacity < b.capacity
  \/ RoomTypeRank(a.room_type) = RoomTypeRank(b.room_type)
     /\ a.capacity = b.capacity /\ a.id <= b.id

RECURSIVE OrderLocations(_)
OrderLocations(S) ==
  IF S = {} THEN <<>>
  ELSE LET m == CHOOSE r \in S : \A q \in S : LocationBefore(r, q)
       IN <<m>> \o OrderLocations(S \ {m})

\* SELECT * FROM locations ORDER BY room_type, capacity
LoadLocations(rows) == OrderLocations(Range(rows))

\* SELECT * FROM subject WHERE semester = ?
LoadSubjects(rows, sem) == SelectSeq(rows, LAMBDA r : r.semester = sem)

\* --------------------------------------------------------- subject priority
get_subject_priority(subject) ==
  <<subject.lecture_credits + subject.lab_credits, subject.lab_credits,
    subject.lecture_credits>>

\* the key with the lecture hours before the lab hours
PriorityGreater_lectures_first(a, b) ==
  LET ka == get_subject_priority(a)
      kb == get_subject_priority(b)
  IN \/ ka[1] > kb[1]
     \/ ka[1] = kb[1] /\ ka[3] > kb[3]
     \/ ka[1] = kb[1] /\ ka[3] = kb[3] /\ ka[2] > kb[2]

\* tuple comparison of the keys, as sort(reverse=True) sees them
PriorityGreater(a, b) ==
  LET ka == get_subject_priority(a)
      kb == get_subject_priority(b)
  IN \/ ka[1] > kb[1]
     \/ ka[1] = kb[1] /\ ka[2] > kb[2]
     \/ ka[1] = kb[1] /\ ka[2] = kb[2] /\ ka[3] > kb[3]

\* list.sort(key=..., reverse=True): descending and stable
RECURSIVE SortByPriority(_)
SortByPriority(seq) ==
  IF seq = <<>> THEN <<>>
  ELSE LET i == CHOOSE k \in 1..Len(seq) :
                  /\ \A j \in 1..Len(seq) : ~PriorityGreater(seq[j], seq[k])
                  /\ \A j \in 1..(k - 1) : PriorityGreater(seq[k], seq[j])
           rest == [j \in 1..(Len(seq) - 1) |->
                      IF j < i THEN seq[j] ELSE seq[j + 1]]
       IN <<seq[i]>> \o SortByPriority(rest)

\* ------------------------------------------------------- _parse_availability
day_map(d) ==
  CASE d = "Mon" -> "Monday" [] d = "Tue" -> "Tuesday"
    [] d = "Wed" -> "Wednesday" [] d = "Thu" -> "Thursday"
    [] d = "Fri" -> "Friday" [] d = "Sat" -> "Saturday"
    [] OTHER -> d

Contains(str, sep) == \E i \in 1..Len(str) : str[i] = sep

\* str.split(sep): the pieces between the separators, empty pieces included
RECURSIVE SplitOn(_, _, _)
SplitOn(str, sep, piece) ==
  IF str = <<>> THEN <<piece>>
  ELSE IF Head(str) = sep
       THEN <<piece>> \o SplitOn(Tail(str), sep, <<>>)
       ELSE SplitOn(Tail(str), sep, Append(piece, Head(str)))

\* day_map.get(piece, piece): a piece of one token is looked up; any other
\* piece (empty, or still holding the other separator) is no day name
PieceDay(piece) ==
  IF Len(piece) = 1 THEN day_map(piece[1])
  ELSE IF piece = <<>> THEN "" ELSE "?"

_parse_availability(availability_str) ==
  LET short_days ==
        IF Contains(availability_str, "-") THEN SplitOn(availability_str, "-", <<>>)
        ELSE IF Contains(availability_str, ",")
             THEN SplitOn(availability_str, ",", <<>>)
             ELSE <<availability_str>>
  IN {PieceDay(short_days[i]) : i \in 1..Len(short_days)}

\* ------------------------------------------------------------ slot lookups
\* next((s for s in self.available_slots if s['id'] == slot_id), None)
HasSlot(slot_id) == \E i \in 1..Len(available_slots) : available_slots[i].id = slot_id

SlotById(slot_id) ==
  available_slots[CHOOSE i \in 1..Len(available_slots) :
                    available_slots[i].id = slot_id]

FacultyById(faculty_id) ==
  faculty[CHOOSE i \in 1..Len(faculty) : faculty[i].id = faculty_id]

\* ------------------------------------------------- _check_consecutive_hours
\* the sorted list faculty_day_slots, as <<slot_number, tag>> pairs so that
\* equal slot numbers (two shifts) stay separate entries; tag 0 is the candidate
RECURSIVE SortedNumbers(_)
SortedNumbers(S) ==
  IF S = {} THEN <<>>
  ELSE LET m == CHOOSE a \in S : \A b \in S :
                  a[1] < b[1] \/ (a[1] = b[1] /\ a[2] <= b[2])
       IN <<m[1]>> \o SortedNumbers(S \ {m})

RECURSIVE RunWithinLimit(_, _, _)
RunWithinLimit(numbers, i, consecutive) ==
  IF i > Len(numbers) THEN TRUE
  ELSE IF numbers[i] = numbers[i - 1] + 1
       THEN IF consecutive + 1 > max_consecutive_hours THEN FALSE
            ELSE RunWithinLimit(numbers, i + 1, consecutive + 1)
       ELSE RunWithinLimit(numbers, i + 1, 1)

_check_consecutive_hours(faculty_id, slot, sched) ==
  LET mine == {sid \in DOMAIN sched :
                 /\ sched[sid].faculty_id = faculty_id
                 /\ HasSlot(sid)
                 /\ SlotById(sid).day = slot.day}
      faculty_day_slots ==
        SortedNumbers({<<SlotById(sid).slot_number, sid>> : sid \in mine}
                      \cup {<<slot.slot_number, 0>>})
  IN RunWithinLimit(faculty_day_slots, 2, 1)

\* is_faculty_available without its day check
is_faculty_available_any_day(faculty_id, slot, sched, load) ==
  IF ~\E i \in 1..Len(faculty) : faculty[i].id = faculty_id
  THEN [ok |-> FALSE, reason |-> "Faculty not found"]
  ELSE
    LET f == FacultyById(faculty_id) IN
    IF \E sid \in DOMAIN sched :
         /\ sched[sid].faculty_id = faculty_id
         /\ HasSlot(sid)
         /\ SlotById(sid).day = slot.day
         /\ SlotById(sid).start_time = slot.start_time
    THEN [ok |-> FALSE, reason |-> "Faculty already scheduled at this time"]
    ELSE IF load[faculty_id] >= f.max_hours_per_week
    THEN [ok |-> FALSE, reason |-> "Faculty weekly hour limit reached"]
    ELSE IF ~_check_consecutive_hours(faculty_id, slot, sched)
    THEN [ok |-> FALSE, reason |-> "Exceeds consecutive hours limit"]
    ELSE [ok |-> TRUE, reason |-> "Available"]

\* ----------------------------------------------------- is_faculty_available
is_faculty_available(faculty_id, slot, sched, load) ==
  IF ~\E i \in 1..Len(faculty) : faculty[i].id = faculty_id
  THEN [ok |-> FALSE, reason |-> "Faculty not found"]
  ELSE
    LET f == FacultyById(faculty_id) IN
    IF slot.day \notin _parse_availability(f.availability)
    THEN [ok |-> FALSE, reason |-> "Faculty not available on day"]
    ELSE IF \E sid \in DOMAIN sched :
              /\ sched[sid].faculty_id = faculty_id
              /\ HasSlot(sid)
              /\ SlotById(sid).day = slot.day
              /\ SlotById(sid).start_time = slot.start_time
    THEN [ok |-> FALSE, reason |-> "Faculty already scheduled at this time"]
    ELSE IF load[faculty_id] >= f.max_hours_per_week
    THEN [ok |-> FALSE, reason |-> "Faculty weekly hour limit reached"]
    ELSE IF ~_check_consecutive_hours(faculty_id, slot, sched)
    THEN [ok |-> FALSE, reason |-> "Exceeds consecutive hours limit"]
    ELSE [ok |-> TRUE, reason |-> "Available"]

\* get_eligible_faculty: every faculty id, in loaded order
get_eligible_faculty == [i \in 1..Len(faculty) |-> faculty[i].id]

\* ---------------------------------------------------- find_consecutive_slots
\* the first slot of available_slots with this day and slot number, or 0
TargetSlot(day, slot_number) ==
  LET hits == {i \in 1..Len(available_slots) :
                 /\ available_slots[i].day = day
                 /\ available_slots[i].slot_number = slot_number}
  IN IF hits = {} THEN 0
     ELSE available_slots[CHOOSE i \in hits : \A j \in hits : i <= j].id

\* find_consecutive_slots looking for slot_number + 2 as the second slot
find_consecutive_slots_gap(day, start_slot_number, sched) ==
  LET first == TargetSlot(day, start_slot_number)
      second == TargetSlot(day, start_slot_number + 2)
  IN IF first = 0 \/ first \in DOMAIN sched THEN <<>>
     ELSE IF second = 0 \/ second \in DOMAIN sched THEN <<>>
     ELSE <<first, second>>

\* find_consecutive_slots without its "already in the schedule" tests
find_consecutive_slots_taken(day, start_slot_number, sched) ==
  LET first == TargetSlot(day, start_slot_number)
      second == TargetSlot(day, start_slot_number + 1)
  IN IF first = 0 \/ second = 0 THEN <<>> ELSE <<first, second>>

\* the ids of the two slots (count = 2), or <<>> for None
find_consecutive_slots(day, start_slot_number, sched) ==
  LET first == TargetSlot(day, start_slot_number)
      second == TargetSlot(day, start_slot_number + 1)
  IN IF first = 0 \/ first \in DOMAIN sched THEN <<>>
     ELSE IF second = 0 \/ second \in DOMAIN sched THEN <<>>
     ELSE <<first, second>>

\* --------------------------------------------------------------- assign_slot
\* the schedule map and the loads after assign_slot
assign_slot(st, slot_id, subject_id, faculty_id, slot_type) ==
  [st EXCEPT
     !.schedule = [sid \in DOMAIN st.schedule \cup {slot_id} |->
                     IF sid = slot_id
                     THEN [subject_id |-> subject_id, faculty_id |-> faculty_id,
                           slot_type |-> slot_type]
                     ELSE st.schedule[sid]],
     !.faculty_load = [st.faculty_load EXCEPT ![faculty_id] = @ + 1]]

\* --------------------------------------------------------------- assign_room
RequiredType(slot_type) == IF slot_type = "lab" THEN "Lab" ELSE "Classroom"

MinCapacity(slot_type) ==
  IF slot_type = "lab" THEN LabMinCapacity ELSE ClassMinCapacity

\* the rooms of the required type and capacity, occupied or not
SuitableRooms_any_time(slot, slot_type, rooms) ==
  SelectSeq(locations, LAMBDA loc :
    /\ loc.room_type = RequiredType(slot_type)
    /\ loc.capacity >= MinCapacity(slot_type))

\* rooms of the required type and capacity that no slot of the same day and
\* start time holds, in the order of self.locations
SuitableRooms(slot, slot_type, rooms) ==
  LET occupied == {rooms[sid] : sid \in {x \in DOMAIN rooms :
                      /\ HasSlot(x)
                      /\ SlotById(x).day = slot.day
                      /\ SlotById(x).start_time = slot.start_time}}
  IN SelectSeq(locations, LAMBDA loc :
       /\ loc.room_type = RequiredType(slot_type)
       /\ loc.capacity >= MinCapacity(slot_type)
       /\ loc.id \notin occupied)

\* max instead of min: the room farthest from the requirement
BestRoom_farthest(suitable, slot_type) ==
  LET waste(i) == Abs(suitable[i].capacity - MinCapacity(slot_type))
      best == CHOOSE i \in 1..Len(suitable) :
                \A j \in 1..Len(suitable) : waste(i) >= waste(j)
  IN suitable[best].id

\* min(suitable_rooms, key=|capacity - min_capacity|): the first minimum
BestRoom(suitable, slot_type) ==
  LET waste(i) == Abs(suitable[i].capacity - MinCapacity(slot_type))
      best == CHOOSE i \in 1..Len(suitable) :
                /\ \A j \in 1..Len(suitable) : waste(i) <= waste(j)
                /\ \A j \in 1..(i - 1) : waste(j) > waste(i)
  IN suitable[best].id

\* assign_room taking the slot back when it finds no room
assign_room_undo(st, slot_id, slot_type) ==
  IF ~HasSlot(slot_id) THEN st
  ELSE LET suitable == SuitableRooms(SlotById(slot_id), slot_type,
                                     st.room_assignments)
       IN IF suitable # <<>>
          THEN [st EXCEPT !.room_assignments =
                  [sid \in DOMAIN st.room_assignments \cup {slot_id} |->
                     IF sid = slot_id THEN BestRoom(suitable, slot_type)
                     ELSE st.room_assignments[sid]]]
          ELSE [st EXCEPT
                  !.warnings = Append(st.warnings, slot_id),
                  !.schedule = [sid \in DOMAIN st.schedule \ {slot_id} |->
                                  st.schedule[sid]]]

assign_room(st, slot_id, slot_type) ==
  IF ~HasSlot(slot_id) THEN st
  ELSE LET suitable == SuitableRooms(SlotById(slot_id), slot_type,
                                     st.room_assignments)
       IN IF suitable # <<>>
          THEN [st EXCEPT !.room_assignments =
                  [sid \in DOMAIN st.room_assignments \cup {slot_id} |->
                     IF sid = slot_id THEN BestRoom(suitable, slot_type)
                     ELSE st.room_assignments[sid]]]
          ELSE [st EXCEPT !.warnings = Append(st.warnings, slot_id)]

\* the four maps the placement code writes, as one value
AssignState ==
  [schedule |-> schedule, faculty_load |-> faculty_load,
   room_assignments |-> room_assignments, warnings |-> warnings]

\* ----------------------------------------------------------- detect_conflicts
\* One record per (faculty or room, day, start time) that two or more slots
\* share, with the slots that collide there; the code appends one entry per
\* slot after the first, so its list has Cardinality(slots) - 1 entries a key.
FacultyConflicts(sched) ==
  {c \in {[type |-> "faculty_double_booking", id |-> sched[sid].faculty_id,
           day |-> SlotById(sid).day, time |-> SlotById(sid).start_time,
           slots |-> {x \in DOMAIN sched :
                        /\ HasSlot(x)
                        /\ sched[x].faculty_id = sched[sid].faculty_id
                        /\ SlotById(x).day = SlotById(sid).day
                        /\ SlotById(x).start_time = SlotById(sid).start_time}] :
           sid \in {y \in DOMAIN sched : HasSlot(y)}} :
     Cardinality(c.slots) > 1}

RoomConflicts(rooms) ==
  {c \in {[type |-> "room_double_booking", id |-> rooms[sid],
           day |-> SlotById(sid).day, time |-> SlotById(sid).start_time,
           slots |-> {x \in DOMAIN rooms :
                        /\ HasSlot(x)
                        /\ rooms[x] = rooms[sid]
                        /\ SlotById(x).day = SlotById(sid).day
                        /\ SlotById(x).start_time = SlotById(sid).start_time}] :
           sid \in {y \in DOMAIN rooms : HasSlot(y)}} :
     Cardinality(c.slots) > 1}

\* detect_conflicts with time_key made of the day alone
detect_conflicts_by_day(sched, rooms) ==
  {c \in {[type |-> "faculty_double_booking", id |-> sched[sid].faculty_id,
           day |-> SlotById(sid).day, time |-> SlotById(sid).start_time,
           slots |-> {x \in DOMAIN sched :
                        /\ HasSlot(x)
                        /\ sched[x].faculty_id = sched[sid].faculty_id
                        /\ SlotById(x).day = SlotById(sid).day}] :
           sid \in {y \in DOMAIN sched : HasSlot(y)}} :
     Cardinality(c.slots) > 1}
  \cup
  {c \in {[type |-> "room_double_booking", id |-> rooms[sid],
           day |-> SlotById(sid).day, time |-> SlotById(sid).start_time,
           slots |-> {x \in DOMAIN rooms :
                        /\ HasSlot(x)
                        /\ rooms[x] = rooms[sid]
                        /\ SlotById(x).day = SlotById(sid).day}] :
           sid \in {y \in DOMAIN rooms : HasSlot(y)}} :
     Cardinality(c.slots) > 1}

detect_conflicts(sched, rooms) == FacultyConflicts(sched) \cup RoomConflicts(rooms)

\* len(self.conflicts)
ConflictCount(cs) ==
  SumOver([c \in cs |-> Cardinality(c.slots) - 1], cs)

\* ------------------------------------------------------------------ inputs
AllWeek == <<"Mon", ",", "Tue", ",", "Wed", ",", "Thu", ",", "Fri", ",", "Sat">>

MonWed == <<"Mon", ",", "Wed">>

MonToFri == <<"Mon", "-", "Fri">>

NoUsableDay == <<"Sun">>

Shift(start, end) == [start |-> start, end |-> end]

Config(working_days, shift_mode, shift_timings) ==
  [working_days |-> working_days, shift_mode |-> shift_mode,
   shift_timings |-> shift_timings]

\* single shift 09:00-17:00, Mon-Fri: nine slots a day, seven of them teaching
FullDayConfig == Config("Mon-Fri", "single", <<Shift(540, 1020)>>)

\* single shift 09:00-11:00: slots 1 and 2 of every day
ShortConfig == Config("Mon-Fri", "single", <<Shift(540, 660)>>)

ShortSatConfig == Config("Mon-Sat", "single", <<Shift(540, 660)>>)

\* two shifts whose windows overlap: 09:00-10:00 listed before 08:00-10:00
OverlapConfig == Config("Mon-Fri", "multi", <<Shift(540, 600), Shift(480, 600)>>)

OverlapConfigReversed ==
  Config("Mon-Fri", "multi", <<Shift(480, 600), Shift(540, 600)>>)

\* a shift shorter than one slot: no slot at all
EmptyConfig == Config("Mon-Fri", "single", <<Shift(540, 570)>>)

\* the semester of the active configuration
TargetSemester == "sem3"

OtherSemester == "sem4"

\* subject rows for the target semester from <<lecture, lab>> pairs, followed
\* by one row of another semester
SubjectRows(hours) ==
  [i \in 1..(Len(hours) + 1) |->
     IF i <= Len(hours)
     THEN [id |-> i, semester |-> TargetSemester,
           lecture_credits |-> hours[i][1], lab_credits |-> hours[i][2]]
     ELSE [id |-> i, semester |-> OtherSemester,
           lecture_credits |-> 1, lab_credits |-> 0]]

Faculty(id, availability, max_hours_per_week) ==
  [id |-> id, availability |-> availability,
   max_hours_per_week |-> max_hours_per_week]

Room(id, room_type, capacity) ==
  [id |-> id, room_type |-> room_type, capacity |-> capacity]

OneFaculty == <<Faculty(1, AllWeek, DefaultMaxHours)>>

TwoFaculty == <<Faculty(1, MonWed, 1), Faculty(2, AllWeek, DefaultMaxHours)>>

SomeRooms == <<Room(1, "Classroom", 60), Room(2, "Lab", 40),
               Room(3, "Classroom", 50)>>

\* faculty and rooms that go together in the general scenarios
Staffings ==
  { <<OneFaculty, SomeRooms>>,
    <<TwoFaculty, SomeRooms>>,
    <<<<Faculty(1, MonToFri, 3)>>, <<>>>>,
    <<<<Faculty(1, NoUsableDay, DefaultMaxHours)>>, SomeRooms>> }

SubjectHours == (0..MaxLectureHours) \X (0..MaxLabHours)

Scenario(config, subject_rows, faculty_rows, rooms) ==
  [config |-> config, subjects |-> subject_rows, faculty |-> faculty_rows,
   locations |-> rooms]

\* one subject of the target semester on the two-slot day
GeneralScenarios ==
  {Scenario(ShortConfig, SubjectRows(<<a>>), st[1], st[2]) :
     a \in SubjectHours, st \in Staffings}

\* two subjects and one faculty member with room for three hours on two days
PairScenarios ==
  {Scenario(ShortConfig, SubjectRows(<<a, b>>),
            <<Faculty(1, MonWed, 3)>>, r) :
     a \in {<<1, 0>>, <<0, 2>>, <<1, 2>>}, b \in {<<1, 0>>, <<0, 2>>, <<1, 2>>},
     r \in {<<>>, SomeRooms}}

\* one subject on the calendars with overlapping shifts
OverlapScenarios ==
  {Scenario(c, SubjectRows(<<a>>), OneFaculty, SomeRooms) :
     c \in {OverlapConfig, OverlapConfigReversed},
     a \in {<<2, 0>>, <<0, 2>>, <<1, 2>>}}

\* lectures only, spread over the week
MaxSpreadLectures == 5

SpreadScenarios ==
  {Scenario(c, SubjectRows(<<<<n, 0>>>>), OneFaculty, SomeRooms) :
     c \in {ShortConfig, ShortSatConfig}, n \in 1..MaxSpreadLectures}

\* the full 09:00-17:00 day: three lectures, or three lab blocks
FullDayScenarios ==
  {Scenario(FullDayConfig, SubjectRows(<<h>>), OneFaculty, SomeRooms) :
     h \in {<<3, 0>>, <<0, 6>>}}

\* nothing to schedule, nobody to teach, nowhere to put it
DegenerateScenarios ==
  { Scenario(ShortConfig, SubjectRows(<<>>), OneFaculty, SomeRooms),
    Scenario(ShortConfig, SubjectRows(<<<<1, 2>>>>), <<>>, SomeRooms),
    Scenario(ShortConfig, SubjectRows(<<>>), <<>>, <<>>),
    Scenario(EmptyConfig, SubjectRows(<<<<1, 2>>>>), OneFaculty, SomeRooms) }

Scenarios ==
  GeneralScenarios \cup PairScenarios \cup OverlapScenarios
  \cup SpreadScenarios \cup FullDayScenarios \cup DegenerateScenarios

\* -------------------------------------------------------------------- Init
\* TimetableScheduler.__init__
NewScheduler ==
  /\ subjects = <<>>
  /\ faculty = <<>>
  /\ available_slots = <<>>
  /\ locations = <<>>
  /\ schedule = <<>>
  /\ faculty_load = <<>>
  /\ room_assignments = <<>>
  /\ conflicts = {}
  /\ warnings = <<>>

\* The tables as uploaded and configured, no slot generated yet, and a
\* TimetableScheduler as __init__ leaves it.
InitFrom(scenarios, is_seeded) ==
  /\ \E sc \in scenarios :
       /\ academic_config = sc.config
       /\ subject_table = sc.subjects
       /\ faculty_table = sc.faculty
       /\ locations_table = sc.locations
       /\ config_table = <<sc.config>>
  /\ config_id = 1
  /\ next_slot_id = 1
  /\ calls = <<>>
  /\ saved_slots = <<>>
  /\ parked = <<>>
  /\ timetable_slots = <<>>
  /\ semester = TargetSemester
  /\ NewScheduler
  /\ pc = "config"
  /\ subject_index = 0
  /\ scheduled = 0
  /\ attempts = 0
  /\ days_used = {}
  /\ scheduled_blocks = 0
  /\ days_left = {}
  /\ lecture_count = 0
  /\ results = <<>>
  /\ outcome = "none"
  /\ seeded = is_seeded
  /\ rng_calls = <<>>
  /\ rng_tape = <<>>
  /\ run = 1
  /\ first_schedule = <<>>
  /\ first_rooms = <<>>

Init == InitFrom(Scenarios, FALSE)

\* ------------------------------------------------------- generate_time_slots
GenerateTimeSlots ==
  /\ pc = "config"
  /\ LET g == generate_time_slots(config_table, timetable_slots, saved_slots,
                                  next_slot_id, config_id)
     IN /\ timetable_slots' = g.rows
        /\ saved_slots' = g.saved
        /\ next_slot_id' = g.next_id
        /\ calls' = Append(calls, [config_id |-> config_id, ok |-> g.ok,
                                   message |-> g.message, count |-> g.count])
  /\ pc' = "ready"
  /\ UNCHANGED <<config_table, config_id, parked>>
  /\ UNCHANGED <<academic_config, subject_table, faculty_table, locations_table,
                 data_vars, assign_vars, conflicts, lecture_locals, lab_locals,
                 subject_index, lecture_count, results, outcome, rng_vars,
                 run_vars>>

\* --------------------------------------------------------- generate_schedule
\* load_data's result without the faculty count
LoadOk_subjects_only(loaded_subjects, loaded_faculty) ==
  Len(loaded_subjects) > 0

\* load_data's result: return len(self.subjects) > 0 and len(self.faculty) > 0
LoadOk(loaded_subjects, loaded_faculty) ==
  Len(loaded_subjects) > 0 /\ Len(loaded_faculty) > 0

\* load_data, the early return, the priority sort and the empty results
GenerateScheduleStart ==
  /\ UNCHANGED <<calendar_vars, session_vars>>
  /\ pc = "ready"
  /\ LET loaded == LoadSubjects(subject_table, semester)
         ok == LoadOk(loaded, faculty_table)
     IN /\ subjects' = IF ok THEN SortByPriority(loaded) ELSE loaded
        /\ faculty' = faculty_table
        /\ faculty_load' = [id \in {faculty_table[i].id : i \in 1..Len(faculty_table)} |-> 0]
        /\ available_slots' = LoadAvailableSlots(timetable_slots)
        /\ locations' = LoadLocations(locations_table)
        /\ IF ok
           THEN /\ results' = [total_subjects |-> Len(loaded),
                               successfully_scheduled |-> 0,
                               partially_scheduled |-> 0, failed |-> 0,
                               details |-> <<>>, conflicts |-> 0, warnings |-> 0]
                /\ subject_index' = 1
                /\ pc' = "lectures"
                /\ outcome' = outcome
           ELSE /\ results' = [error |-> "Failed to load data"]
                /\ subject_index' = subject_index
                /\ pc' = "done"
                /\ outcome' = "error"
  /\ UNCHANGED <<db_vars, semester, schedule, room_assignments, warnings,
                 conflicts, lecture_locals, lab_locals, lecture_count,
                 rng_vars, run_vars>>

\* --------------------------------------------------------- schedule_lectures
FreeSlots(sched) ==
  {i \in 1..Len(available_slots) : available_slots[i].id \notin DOMAIN sched}

\* preferred_slots without the preference for unused days
PreferredSlots_any_day(sched, used) == FreeSlots(sched)

\* preferred_slots: free slots of days not yet used, else every free slot
PreferredSlots(sched, used) ==
  LET fresh == {i \in FreeSlots(sched) : available_slots[i].day \notin used}
  IN IF fresh # {} THEN fresh ELSE FreeSlots(sched)

\* the last available faculty instead of the first
FirstAvailableFaculty_last(slot_ids, sched, load) ==
  LET eligible == get_eligible_faculty
      good == {i \in 1..Len(eligible) :
                 \A sid \in slot_ids :
                   is_faculty_available(eligible[i], SlotById(sid), sched, load).ok}
  IN IF good = {} THEN 0
     ELSE eligible[CHOOSE i \in good : \A j \in good : i >= j]

\* the first faculty, in eligible order, available for every slot of slot_ids;
\* 0 when there is none
FirstAvailableFaculty(slot_ids, sched, load) ==
  LET eligible == get_eligible_faculty
      good == {i \in 1..Len(eligible) :
                 \A sid \in slot_ids :
                   is_faculty_available(eligible[i], SlotById(sid), sched, load).ok}
  IN IF good = {} THEN 0
     ELSE eligible[CHOOSE i \in good : \A j \in good : i <= j]

\* three attempts per slot instead of two
max_attempts_three(slot_count) == slot_count * 3

\* max_attempts = len(self.available_slots) * 2
max_attempts(slot_count) == slot_count * 2

LectureLoopRuns ==
  /\ scheduled < subjects[subject_index].lecture_credits
  /\ attempts < max_attempts(Len(available_slots))
  /\ FreeSlots(schedule) # {}

\* The positions of a set of slots, in the order of available_slots: the
\* list random.choice draws from.
RECURSIVE Ascending(_)
Ascending(S) ==
  IF S = {} THEN <<>>
  ELSE LET m == CHOOSE x \in S : \A y \in S : x <= y
       IN <<m>> \o Ascending(S \ {m})

\* random.choice(seq): any index of the list. A seeded generator is a
\* function of its seed and of the calls made so far, so a run that has made
\* the same calls as the run before it, from the same seed, draws the same
\* index again.
RandomIndexes(n) ==
  LET k == Len(rng_calls) + 1
  IN IF /\ seeded
        /\ run > 1
        /\ k <= Len(rng_tape)
        /\ SubSeq(rng_tape, 1, k - 1) = rng_calls
        /\ rng_tape[k][1] = n
     THEN {rng_tape[k][2]}
     ELSE 1..n

\* one pass of the while loop: random.choice, then the faculty loop
LectureAttempt ==
  /\ UNCHANGED <<calendar_vars, session_vars>>
  /\ pc = "lectures"
  /\ LectureLoopRuns
  /\ LET preferred_slots == Ascending(PreferredSlots(schedule, days_used))
     IN \E k \in RandomIndexes(Len(preferred_slots)) :
       LET slot == available_slots[preferred_slots[k]]
           subject == subjects[subject_index]
           faculty_id == FirstAvailableFaculty({slot.id}, schedule, faculty_load)
           placed == assign_room(
                       assign_slot(AssignState, slot.id, subject.id, faculty_id,
                                   "lecture"),
                       slot.id, "lecture")
       IN /\ IF faculty_id # 0
             THEN /\ schedule' = placed.schedule
                  /\ faculty_load' = placed.faculty_load
                  /\ room_assignments' = placed.room_assignments
                  /\ warnings' = placed.warnings
                  /\ days_used' = days_used \cup {slot.day}
                  /\ scheduled' = scheduled + 1
             ELSE UNCHANGED <<assign_vars, days_used, scheduled>>
          /\ rng_calls' = IF seeded
                          THEN Append(rng_calls, <<Len(preferred_slots), k>>)
                          ELSE rng_calls
  /\ attempts' = attempts + 1
  /\ UNCHANGED <<db_vars, data_vars, conflicts, pc, subject_index, lab_locals,
                 lecture_count, results, outcome, seeded, rng_tape, run_vars>>

\* return scheduled == lecture_hours, scheduled (the locals of
\* schedule_lectures end with the call); schedule_labs begins
LecturesReturn ==
  /\ UNCHANGED <<calendar_vars, session_vars>>
  /\ pc = "lectures"
  /\ ~LectureLoopRuns
  /\ lecture_count' = scheduled
  /\ pc' = "labs"
  /\ scheduled_blocks' = 0
  /\ days_left' = {available_slots[i].day : i \in 1..Len(available_slots)}
  /\ scheduled' = 0
  /\ attempts' = 0
  /\ days_used' = {}
  /\ UNCHANGED <<db_vars, data_vars, assign_vars, conflicts, subject_index,
                 results, outcome, rng_vars, run_vars>>

\* ------------------------------------------------------------- schedule_labs
blocks_needed(subject) == (subject.lab_credits + 1) \div 2

\* day_slots: the day's slots sorted by slot number (a stable sort of a
\* list that load_data already ordered)
DaySlots(day) == SelectSeq(available_slots, LAMBDA s : s.day = day)

\* the state after both slots of a block are assigned, each followed by its
\* room
CommitBlock(st, slot_ids, subject_id, faculty_id) ==
  LET one == assign_room(assign_slot(st, slot_ids[1], subject_id, faculty_id, "lab"),
                         slot_ids[1], "lab")
  IN assign_room(assign_slot(one, slot_ids[2], subject_id, faculty_id, "lab"),
                 slot_ids[2], "lab")

\* the faculty a block goes to: the first one available for both slots, each
\* slot asked about against the schedule as it is before the block
BlockFaculty(slot_ids, sched, load) ==
  FirstAvailableFaculty(Range(slot_ids), sched, load)

\* "for slot in day_slots", from position pos on: the maps and the block count
\* when the loop over this day ends
RECURSIVE ScanDay(_, _, _, _, _)
ScanDay(st, blocks, subject, day_slots, pos) ==
  IF pos > Len(day_slots) \/ blocks >= blocks_needed(subject)
  THEN [st |-> st, blocks |-> blocks]
  ELSE
    LET consecutive_slots ==
          find_consecutive_slots(day_slots[pos].day, day_slots[pos].slot_number,
                                 st.schedule)
        faculty_id ==
          IF consecutive_slots = <<>> THEN 0
          ELSE BlockFaculty(consecutive_slots, st.schedule, st.faculty_load)
    IN IF faculty_id # 0
       THEN ScanDay(CommitBlock(st, consecutive_slots, subject.id, faculty_id),
                    blocks + 1, subject, day_slots, pos + 1)
       ELSE ScanDay(st, blocks, subject, day_slots, pos + 1)

\* one pass of "for day in days": list(set(...)) yields the days in no fixed
\* order, so the next day is any day not yet visited
LabScanDay ==
  /\ UNCHANGED <<calendar_vars, session_vars>>
  /\ pc = "labs"
  /\ scheduled_blocks < blocks_needed(subjects[subject_index])
  /\ \E d \in days_left :
       LET after == ScanDay(AssignState, scheduled_blocks,
                            subjects[subject_index], DaySlots(d), 1)
       IN /\ schedule' = after.st.schedule
          /\ faculty_load' = after.st.faculty_load
          /\ room_assignments' = after.st.room_assignments
          /\ warnings' = after.st.warnings
          /\ scheduled_blocks' = after.blocks
          /\ days_left' = days_left \ {d}
  /\ UNCHANGED <<db_vars, data_vars, conflicts, pc, subject_index,
                 lecture_locals, lecture_count, results, outcome, rng_vars,
                 run_vars>>

\* schedule_subject's statistics with labs_scheduled counted in blocks
SubjectStats_blocks(subject, lectures, blocks) ==
  [subject_id |-> subject.id,
   lectures_needed |-> subject.lecture_credits,
   lectures_scheduled |-> lectures,
   labs_needed |-> subject.lab_credits,
   labs_scheduled |-> blocks,
   success |-> /\ lectures = subject.lecture_credits
               /\ (subject.lab_credits = 0 \/ blocks >= blocks_needed(subject))]

\* ---------------------------------------------- schedule_subject's statistics
SubjectStats(subject, lectures, blocks) ==
  [subject_id |-> subject.id,
   lectures_needed |-> subject.lecture_credits,
   lectures_scheduled |-> lectures,
   labs_needed |-> subject.lab_credits,
   labs_scheduled |-> blocks * 2,
   success |-> /\ lectures = subject.lecture_credits
               /\ (subject.lab_credits = 0 \/ blocks >= blocks_needed(subject))]

\* the body of generate_schedule's loop after schedule_subject returns
\* the three-way count with "or" turned into "and" in the elif
CountSubject_both_kinds(res, stats) ==
  [res EXCEPT
     !.successfully_scheduled = IF stats.success THEN @ + 1 ELSE @,
     !.partially_scheduled =
        IF ~stats.success
           /\ (stats.lectures_scheduled > 0 /\ stats.labs_scheduled > 0)
        THEN @ + 1 ELSE @,
     !.failed =
        IF ~stats.success
           /\ ~(stats.lectures_scheduled > 0 /\ stats.labs_scheduled > 0)
        THEN @ + 1 ELSE @,
     !.details = Append(@, stats)]

CountSubject(res, stats) ==
  [res EXCEPT
     !.successfully_scheduled = IF stats.success THEN @ + 1 ELSE @,
     !.partially_scheduled =
        IF ~stats.success
           /\ (stats.lectures_scheduled > 0 \/ stats.labs_scheduled > 0)
        THEN @ + 1 ELSE @,
     !.failed =
        IF ~stats.success
           /\ ~(stats.lectures_scheduled > 0 \/ stats.labs_scheduled > 0)
        THEN @ + 1 ELSE @,
     !.details = Append(@, stats)]

\* schedule_labs returns (its locals end), schedule_subject returns, the
\* subject is counted and the next one begins
LabsReturn ==
  /\ UNCHANGED <<calendar_vars, session_vars>>
  /\ pc = "labs"
  /\ \/ days_left = {}
     \/ scheduled_blocks >= blocks_needed(subjects[subject_index])
  /\ results' = CountSubject(results,
                  SubjectStats(subjects[subject_index], lecture_count,
                               scheduled_blocks))
  /\ IF subject_index < Len(subjects)
     THEN /\ subject_index' = subject_index + 1
          /\ pc' = "lectures"
     ELSE /\ subject_index' = subject_index
          /\ pc' = "detect"
  /\ scheduled_blocks' = 0
  /\ days_left' = {}
  /\ lecture_count' = 0
  /\ UNCHANGED <<db_vars, data_vars, assign_vars, conflicts, lecture_locals,
                 outcome, rng_vars, run_vars>>

\* detect_conflicts and the return of generate_schedule
DetectConflicts ==
  /\ UNCHANGED <<calendar_vars, session_vars>>
  /\ pc = "detect"
  /\ conflicts' = detect_conflicts(schedule, room_assignments)
  /\ results' = [results EXCEPT
                   !.conflicts = ConflictCount(conflicts'),
                   !.warnings = Len(warnings)]
  /\ outcome' = "success"
  /\ pc' = "done"
  /\ UNCHANGED <<db_vars, data_vars, assign_vars, subject_index,
                 lecture_locals, lab_locals, lecture_count, rng_vars, run_vars>>

Next ==
  \/ GenerateTimeSlots
  \/ GenerateScheduleStart
  \/ LectureAttempt
  \/ LecturesReturn
  \/ LabScanDay
  \/ LabsReturn
  \/ DetectConflicts

Spec == Init /\ [][Next]_vars

\* generate_schedule is one sequential call: a step that can be taken is taken.
\* This is weak fairness of Next, WF_vars(Next), written out as
\* []<>~ENABLED <<Next>>_vars \/ []<><<Next>>_vars with the enabling
\* condition of Next stated directly: every label but "done" has an action
\* whose guards cover all cases, and every action changes pc, attempts or
\* days_left.
NextEnabled == pc # "done"

Fairness == []<>(~NextEnabled) \/ []<><<Next>>_vars

FairSpec == Spec /\ Fairness

\* ------------------------------------------------------------ a second run
\* run_generation once more on the same tables: a new TimetableScheduler, and
\* the random source seeded as it was for the run before
Rerun ==
  /\ UNCHANGED <<calendar_vars, session_vars>>
  /\ pc = "done"
  /\ outcome = "success"
  /\ run = 1
  /\ first_schedule' = schedule
  /\ first_rooms' = room_assignments
  /\ run' = 2
  /\ rng_tape' = rng_calls
  /\ rng_calls' = <<>>
  /\ subjects' = <<>>
  /\ faculty' = <<>>
  /\ available_slots' = <<>>
  /\ locations' = <<>>
  /\ schedule' = <<>>
  /\ faculty_load' = <<>>
  /\ room_assignments' = <<>>
  /\ conflicts' = {}
  /\ warnings' = <<>>
  /\ results' = <<>>
  /\ outcome' = "none"
  /\ pc' = "ready"
  /\ subject_index' = 0
  /\ UNCHANGED <<db_vars, semester, lecture_locals, lab_locals, lecture_count,
                 seeded>>

\* one subject with lectures and a lab block, run twice from the same seed
RerunScenarios ==
  {Scenario(ShortConfig, SubjectRows(<<a>>), OneFaculty, SomeRooms) :
     a \in {<<2, 0>>, <<1, 2>>}}

RerunInit == InitFrom(RerunScenarios, TRUE)

RerunNext == Next \/ Rerun

RerunSpec == RerunInit /\ [][RerunNext]_vars

\* ------------------------------------------- two requests at the same time
\* save_schedule: one UPDATE ... WHERE id = ? per entry of self.schedule, with
\* the room of the slot or None; an id no row has updates nothing
save_schedule(rows, saved, sched, rooms) ==
  LET written == DOMAIN sched \cap {rows[i].id : i \in 1..Len(rows)}
  IN [sid \in DOMAIN saved \cup written |->
        IF sid \in written
        THEN [subject_id |-> sched[sid].subject_id,
              faculty_id |-> sched[sid].faculty_id,
              slot_type |-> sched[sid].slot_type,
              room_id |-> IF sid \in DOMAIN rooms THEN rooms[sid] ELSE 0]
        ELSE saved[sid]]

\* run_generation after a successful generate_schedule
SaveSchedule ==
  /\ pc = "done"
  /\ outcome = "success"
  /\ saved_slots' = save_schedule(timetable_slots, saved_slots, schedule,
                                  room_assignments)
  /\ pc' = "saved"
  /\ UNCHANGED <<db_vars, calendar_vars, config_id, parked, data_vars,
                 assign_vars, conflicts, subject_index, lecture_locals,
                 lab_locals, lecture_count, results, outcome, rng_vars,
                 run_vars>>

\* the TimetableScheduler of the request that is running, with the position
\* of its request
ThisInstance ==
  [config_id |-> config_id, semester |-> semester, subjects |-> subjects,
   faculty |-> faculty, available_slots |-> available_slots,
   locations |-> locations, schedule |-> schedule,
   faculty_load |-> faculty_load, room_assignments |-> room_assignments,
   conflicts |-> conflicts, warnings |-> warnings, pc |-> pc,
   subject_index |-> subject_index, scheduled |-> scheduled,
   attempts |-> attempts, days_used |-> days_used,
   scheduled_blocks |-> scheduled_blocks, days_left |-> days_left,
   lecture_count |-> lecture_count, results |-> results, outcome |-> outcome]

\* TimetableScheduler(config_id, semester) as __init__ leaves it
FreshInstance(cid) ==
  [config_id |-> cid, semester |-> TargetSemester, subjects |-> <<>>,
   faculty |-> <<>>, available_slots |-> <<>>, locations |-> <<>>,
   schedule |-> <<>>, faculty_load |-> <<>>, room_assignments |-> <<>>,
   conflicts |-> {}, warnings |-> <<>>, pc |-> "config",
   subject_index |-> 0, scheduled |-> 0, attempts |-> 0, days_used |-> {},
   scheduled_blocks |-> 0, days_left |-> {}, lecture_count |-> 0,
   results |-> <<>>, outcome |-> "none"]

\* the other request gets to run: its instance takes the place of this one
Switch ==
  /\ parked # <<>>
  /\ parked' = ThisInstance
  /\ config_id' = parked.config_id
  /\ semester' = parked.semester
  /\ subjects' = parked.subjects
  /\ faculty' = parked.faculty
  /\ available_slots' = parked.available_slots
  /\ locations' = parked.locations
  /\ schedule' = parked.schedule
  /\ faculty_load' = parked.faculty_load
  /\ room_assignments' = parked.room_assignments
  /\ conflicts' = parked.conflicts
  /\ warnings' = parked.warnings
  /\ pc' = parked.pc
  /\ subject_index' = parked.subject_index
  /\ scheduled' = parked.scheduled
  /\ attempts' = parked.attempts
  /\ days_used' = parked.days_used
  /\ scheduled_blocks' = parked.scheduled_blocks
  /\ days_left' = parked.days_left
  /\ lecture_count' = parked.lecture_count
  /\ results' = parked.results
  /\ outcome' = parked.outcome
  /\ UNCHANGED <<db_vars, calendar_vars, saved_slots, rng_vars, run_vars>>

\* The request has run with no other request in sight. The process starts
\* again with its random source seeded as before, and this time the other
\* request arrives too.
RunAgainWithCompany ==
  /\ parked # <<>>
  /\ parked = FreshInstance(parked.config_id)
  /\ pc = "saved"
  /\ run = 1
  /\ first_schedule' = schedule
  /\ first_rooms' = room_assignments
  /\ run' = 2
  /\ rng_tape' = rng_calls
  /\ rng_calls' = <<>>
  /\ subjects' = <<>>
  /\ faculty' = <<>>
  /\ available_slots' = <<>>
  /\ locations' = <<>>
  /\ schedule' = <<>>
  /\ faculty_load' = <<>>
  /\ room_assignments' = <<>>
  /\ conflicts' = {}
  /\ warnings' = <<>>
  /\ results' = <<>>
  /\ outcome' = "none"
  /\ pc' = "ready"
  /\ subject_index' = 0
  /\ UNCHANGED <<db_vars, calendar_vars, session_vars, semester,
                 lecture_locals, lab_locals, lecture_count, seeded>>

\* ------------------------------------------- generation runs, each one saved
\* the number of generation runs
MaxRuns == 2

\* generate_schedule and save_schedule have returned; the next request makes a
\* new TimetableScheduler for the same configuration. Nothing regenerates the
\* slots in between. (run_generation calls scheduler.get_conflicts() between
\* the two, a method scheduler.py does not define; the runs here are the two
\* calls made in that order.)
RunAgainAfterSave ==
  /\ pc = "saved"
  /\ run < MaxRuns
  /\ run' = run + 1
  /\ first_schedule' = schedule
  /\ first_rooms' = room_assignments
  /\ subjects' = <<>>
  /\ faculty' = <<>>
  /\ available_slots' = <<>>
  /\ locations' = <<>>
  /\ schedule' = <<>>
  /\ faculty_load' = <<>>
  /\ room_assignments' = <<>>
  /\ conflicts' = {}
  /\ warnings' = <<>>
  /\ results' = <<>>
  /\ outcome' = "none"
  /\ pc' = "ready"
  /\ subject_index' = 0
  /\ UNCHANGED <<db_vars, calendar_vars, session_vars, semester,
                 lecture_locals, lab_locals, lecture_count, rng_vars>>

\* one subject on the two-slot day: a lecture, or a lab block
ResaveScenarios ==
  {Scenario(ShortConfig, SubjectRows(<<h>>), OneFaculty, SomeRooms) :
     h \in {<<1, 0>>, <<0, 2>>}}

ResaveInit == InitFrom(ResaveScenarios, FALSE)

ResaveNext ==
  \/ Next
  \/ SaveSchedule
  \/ RunAgainAfterSave

ResaveSpec == ResaveInit /\ [][ResaveNext]_vars

\* single shift 09:00-10:00: one slot a day
OneSlotConfig == Config("Mon-Fri", "single", <<Shift(540, 600)>>)

\* one subject on the shared tables: a lecture, or a lab block
ConcurrentSubjects == {<<1, 0>>, <<0, 2>>}

\* two saved configurations, a request for each, neither calendar generated
ConcurrentInit ==
  /\ \E h \in ConcurrentSubjects : subject_table = SubjectRows(<<h>>)
  /\ faculty_table = OneFaculty
  /\ locations_table = SomeRooms
  /\ config_table = <<OneSlotConfig, ShortConfig>>
  /\ academic_config = ShortConfig
  /\ config_id = 1
  /\ parked = FreshInstance(2)
  /\ next_slot_id = 1
  /\ calls = <<>>
  /\ saved_slots = <<>>
  /\ timetable_slots = <<>>
  /\ semester = TargetSemester
  /\ NewScheduler
  /\ pc = "config"
  /\ subject_index = 0
  /\ scheduled = 0
  /\ attempts = 0
  /\ days_used = {}
  /\ scheduled_blocks = 0
  /\ days_left = {}
  /\ lecture_count = 0
  /\ results = <<>>
  /\ outcome = "none"
  /\ seeded = TRUE
  /\ rng_calls = <<>>
  /\ rng_tape = <<>>
  /\ run = 1
  /\ first_schedule = <<>>
  /\ first_rooms = <<>>

ConcurrentNext ==
  \/ Next
  \/ SaveSchedule
  \/ Switch
  \/ RunAgainWithCompany

ConcurrentSpec == ConcurrentInit /\ [][ConcurrentNext]_vars

\* -------------------------------------------------- the calendar on its own
\* how many times generate_time_slots is called, and how long a shift gets,
\* in quarters of an hour
MaxCalls == 3

MaxShiftQuarters == 33

CalendarShifts == {Shift(540, 540 + 15 * q) : q \in 0..MaxShiftQuarters}

\* 08:00-13:00 and 14:00-18:00; overlapping shifts; one long shift; a shift too
\* short for a slot before a long one; a shift that ends before it starts
MultiShiftLists ==
  {<<Shift(480, 780), Shift(840, 1080)>>,
   <<Shift(540, 600), Shift(480, 600)>>,
   <<Shift(480, 915)>>,
   <<Shift(480, 500), Shift(600, 1000)>>,
   <<Shift(600, 540), Shift(540, 800)>>}

CalendarConfigs ==
  {Config(w, "single", <<sh>>) : w \in {"Mon-Fri", "Mon-Sat"}, sh \in CalendarShifts}
  \cup {Config(w, "multi", l) : w \in {"Mon-Fri", "Mon-Sat"}, l \in MultiShiftLists}

\* two saved configurations: any of the above, and Mon-Sat in two shifts
CalendarTables ==
  {<<c, Config("Mon-Sat", "multi", <<Shift(480, 780), Shift(840, 1080)>>)>> :
     c \in CalendarConfigs}

\* configurations saved, no slot generated, no generation run in sight
CalendarInit ==
  /\ config_table \in CalendarTables
  /\ academic_config = config_table[Len(config_table)]
  /\ config_id = Len(config_table)
  /\ timetable_slots = <<>>
  /\ next_slot_id = 1
  /\ calls = <<>>
  /\ saved_slots = <<>>
  /\ parked = <<>>
  /\ subject_table = <<>>
  /\ faculty_table = <<>>
  /\ locations_table = <<>>
  /\ semester = TargetSemester
  /\ NewScheduler
  /\ pc = "calendar"
  /\ subject_index = 0
  /\ scheduled = 0
  /\ attempts = 0
  /\ days_used = {}
  /\ scheduled_blocks = 0
  /\ days_left = {}
  /\ lecture_count = 0
  /\ results = <<>>
  /\ outcome = "none"
  /\ seeded = FALSE
  /\ rng_calls = <<>>
  /\ rng_tape = <<>>
  /\ run = 1
  /\ first_schedule = <<>>
  /\ first_rooms = <<>>

\* generate_time_slots(cid) for a saved configuration or for an id one past
\* the last
CallGenerateTimeSlots ==
  /\ pc = "calendar"
  /\ Len(calls) < MaxCalls
  /\ \E cid \in 1..(Len(config_table) + 1) :
       LET g == generate_time_slots(config_table, timetable_slots, saved_slots,
                                    next_slot_id, cid)
       IN /\ timetable_slots' = g.rows
          /\ saved_slots' = g.saved
          /\ next_slot_id' = g.next_id
          /\ calls' = Append(calls, [config_id |-> cid, ok |-> g.ok,
                                     message |-> g.message, count |-> g.count])
  /\ UNCHANGED <<academic_config, subject_table, faculty_table, locations_table,
                 config_table, config_id, parked, data_vars, assign_vars,
                 conflicts, pc, subject_index, lecture_locals, lab_locals,
                 lecture_count, results, outcome, rng_vars, run_vars>>

CalendarNext == CallGenerateTimeSlots

CalendarSpec == CalendarInit /\ [][CalendarNext]_vars

\* -------------------------------------------- detect_conflicts on its own
\* The maps detect_conflicts is called on: up to MaxMapSlots slots of the
\* calendar with overlapping shifts (the three of the first day loaded, two
\* of which start together, then the next day's), each unassigned or assigned to one of two
\* faculty members, an assigned one without a room or in one of two rooms.
MaxMapSlots == 4

MapSlots == {available_slots[i].id : i \in 1..MaxMapSlots}

MapChoices ==
  {<<0, 0>>} \cup ({1, 2} \X {0, 1, 3})

\* a list of conflicts left by an earlier call
StaleConflicts ==
  {[type |-> "faculty_double_booking", id |-> 2, day |-> "Wednesday",
    time |-> 540, slots |-> {7, 9}]}

DetectInit ==
  /\ config_table = <<OverlapConfig>>
  /\ academic_config = OverlapConfig
  /\ config_id = 1
  /\ timetable_slots =
       generate_time_slots(config_table, <<>>, <<>>, 1, 1).rows
  /\ next_slot_id = Len(timetable_slots) + 1
  /\ calls = <<>>
  /\ saved_slots = <<>>
  /\ parked = <<>>
  /\ subject_table = SubjectRows(<<<<2, 0>>, <<1, 0>>>>)
  /\ faculty_table = <<Faculty(1, AllWeek, DefaultMaxHours),
                       Faculty(2, AllWeek, DefaultMaxHours)>>
  /\ locations_table = SomeRooms
  /\ semester = TargetSemester
  /\ subjects = SortByPriority(LoadSubjects(subject_table, semester))
  /\ faculty = faculty_table
  /\ available_slots = LoadAvailableSlots(timetable_slots)
  /\ locations = LoadLocations(locations_table)
  /\ \E pick \in [MapSlots -> MapChoices] :
       LET held == {sid \in MapSlots : pick[sid][1] # 0}
       IN /\ schedule = [sid \in held |->
                           [subject_id |-> 1, faculty_id |-> pick[sid][1],
                            slot_type |-> "lecture"]]
          /\ room_assignments =
               [sid \in {x \in held : pick[x][2] # 0} |-> pick[sid][2]]
          /\ faculty_load =
               [f \in {1, 2} |-> Cardinality({sid \in held : pick[sid][1] = f})]
  /\ conflicts \in {{}, StaleConflicts}
  /\ warnings = <<>>
  /\ pc = "assigned"
  /\ subject_index = 0
  /\ scheduled = 0
  /\ attempts = 0
  /\ days_used = {}
  /\ scheduled_blocks = 0
  /\ days_left = {}
  /\ lecture_count = 0
  /\ results = <<>>
  /\ outcome = "none"
  /\ seeded = FALSE
  /\ rng_calls = <<>>
  /\ rng_tape = <<>>
  /\ run = 1
  /\ first_schedule = <<>>
  /\ first_rooms = <<>>

\* scheduler.detect_conflicts()
CallDetectConflicts ==
  /\ pc = "assigned"
  /\ conflicts' = detect_conflicts(schedule, room_assignments)
  /\ pc' = "checked"
  /\ UNCHANGED <<db_vars, calendar_vars, session_vars, data_vars, assign_vars,
                 subject_index, lecture_locals, lab_locals, lecture_count,
                 results, outcome, rng_vars, run_vars>>

DetectNext == CallDetectConflicts

DetectSpec == DetectInit /\ [][DetectNext]_vars

\* ------------------------------------------------------- the named scenarios
MonOnly == <<"Mon">>

\* single shift 09:00-12:15 (slots 1, 2, break, 4) and 09:00-13:20 (the same
\* and the lunch break): three teaching slots a day
ThreeSlotConfigs ==
  {Config("Mon-Fri", "single", <<Shift(540, 735)>>),
   Config("Mon-Fri", "single", <<Shift(540, 800)>>)}

\* one shift 08:00-15:15 in multi-shift mode: slots 1, 2, break, 4, 5, 6, 7, 8
LongRunConfig == Config("Mon-Fri", "multi", <<Shift(480, 915)>>)

\* Scenario B: four lab hours, faculty on Monday only, three teaching slots
ScenarioB ==
  {Scenario(c, SubjectRows(<<<<0, 4>>>>), <<Faculty(1, MonOnly, DefaultMaxHours)>>,
            SomeRooms) : c \in ThreeSlotConfigs}

\* Scenario C: lecture hours for faculty whose week is full or fills up
ScenarioC ==
  {Scenario(ShortConfig, SubjectRows(h), f, SomeRooms) :
     h \in {<<<<2, 0>>>>, <<<<2, 0>>, <<2, 0>>>>},
     f \in {<<Faculty(1, AllWeek, 0), Faculty(2, AllWeek, DefaultMaxHours)>>,
            <<Faculty(1, AllWeek, 1), Faculty(2, AllWeek, 1)>>,
            <<Faculty(1, AllWeek, 0), Faculty(2, AllWeek, 0)>>}}

\* Scenario D: two lab hours and no room a lab can use
ScenarioD ==
  {Scenario(ShortConfig, SubjectRows(<<h>>), OneFaculty, r) :
     h \in {<<0, 2>>, <<1, 2>>},
     r \in {<<Room(1, "Classroom", 60)>>,
            <<Room(1, "Classroom", 60), Room(2, "Lab", 20)>>}}

\* three lab blocks in a row on Monday, then a lecture
LongRunScenarios ==
  {Scenario(LongRunConfig, SubjectRows(<<<<0, 6>>, <<1, 0>>>>),
            <<Faculty(1, MonOnly, DefaultMaxHours)>>, SomeRooms)}

\* two faculty members, one of them with one hour on two days
SharedScenarios ==
  {Scenario(ShortConfig, SubjectRows(<<h>>), TwoFaculty, SomeRooms) :
     h \in {<<2, 0>>, <<1, 2>>}}

\* two shifts 07:00-13:15 (teaching slots 1, 2, 4, 5, 6, 7) and 13:30-17:45
\* (teaching slots 1, 2, 4, 5): slot numbers 1, 2, 4 and 5 occur twice a day
RepeatedNumbersConfig ==
  Config("Mon-Fri", "multi", <<Shift(420, 795), Shift(810, 1065)>>)

\* one subject: a lecture, then two lab blocks
RepeatedNumbersScenarios ==
  {Scenario(RepeatedNumbersConfig, SubjectRows(<<<<1, 4>>>>), OneFaculty, <<>>)}

\* two subjects with the same total: two lecture hours listed before two lab
\* hours
TieScenarios ==
  {Scenario(ShortConfig, SubjectRows(<<<<2, 0>>, <<0, 2>>>>), OneFaculty, <<>>)}

\* two shifts of different lengths: 08:00-09:00 (slot 1) and 14:00-16:00
\* (slots 1 and 2)
UnevenShiftsConfig ==
  Config("Mon-Fri", "multi", <<Shift(480, 540), Shift(840, 960)>>)

\* two shifts 08:00-10:00 and 14:00-16:00: slots 1 and 2 in the morning and
\* slots 1 and 2 in the afternoon
TwoShiftsConfig ==
  Config("Mon-Fri", "multi", <<Shift(480, 600), Shift(840, 960)>>)

\* one lab block on the calendar with uneven shifts; two lab blocks for a
\* faculty member who comes on Monday only, on the calendar with two equal
\* shifts
ShiftScenarios ==
  {Scenario(UnevenShiftsConfig, SubjectRows(<<<<0, 2>>>>), OneFaculty, <<>>),
   Scenario(TwoShiftsConfig, SubjectRows(<<<<0, 4>>>>),
            <<Faculty(1, MonOnly, DefaultMaxHours)>>, <<>>)}

\* two lecture hours for a faculty member who comes on Monday only
OneDayScenarios ==
  {Scenario(ShortConfig, SubjectRows(<<<<2, 0>>>>),
            <<Faculty(1, MonOnly, DefaultMaxHours)>>, <<>>)}

CaseScenarios ==
  ScenarioB \cup ScenarioC \cup ScenarioD \cup LongRunScenarios
  \cup SharedScenarios \cup PairScenarios \cup OverlapScenarios
  \cup RepeatedNumbersScenarios \cup TieScenarios \cup ShiftScenarios
  \cup OneDayScenarios

CaseInit == InitFrom(CaseScenarios, FALSE)

CaseSpec == CaseInit /\ [][Next]_vars

\* ============================================================== properties
AssignedSlots == {sid \in DOMAIN schedule : HasSlot(sid)}

Finished == pc = "done" /\ outcome = "success"

FacultyIds == {faculty[i].id : i \in 1..Len(faculty)}

SlotsOfFacultyOn(faculty_id, day) ==
  {sid \in AssignedSlots :
     schedule[sid].faculty_id = faculty_id /\ SlotById(sid).day = day}

\* C1: when generate_schedule has finished, no two slots assigned to the same
\* faculty member share both day and start time, lab blocks and overlapping
\* shifts included.
C1_NoFacultyDoubleBooking ==
  Finished =>
    \A a \in AssignedSlots, b \in AssignedSlots :
      (a # b /\ schedule[a].faculty_id = schedule[b].faculty_id)
        => ~(/\ SlotById(a).day = SlotById(b).day
             /\ SlotById(a).start_time = SlotById(b).start_time)

\* C2: at every point of a run, no faculty member's load exceeds their
\* max_hours_per_week, also right after a lab block is committed.
C2_LoadWithinWeeklyMaximum ==
  \A i \in 1..Len(faculty) :
    faculty[i].id \in DOMAIN faculty_load
      => faculty_load[faculty[i].id] <= faculty[i].max_hours_per_week

\* C3: the lab slots of each subject split into pairs of slots of one day, one
\* faculty member and slot numbers that differ by exactly 1, with no lab slot
\* left over.
LabSlotsOf(subject_id) ==
  {sid \in AssignedSlots :
     schedule[sid].subject_id = subject_id /\ schedule[sid].slot_type = "lab"}

IsLabPair(a, b) ==
  /\ a # b
  /\ SlotById(a).day = SlotById(b).day
  /\ schedule[a].faculty_id = schedule[b].faculty_id
  /\ Abs(SlotById(a).slot_number - SlotById(b).slot_number) = 1

RECURSIVE SplitsIntoLabPairs(_)
SplitsIntoLabPairs(S) ==
  \/ S = {}
  \/ /\ S # {}
     /\ LET a == CHOOSE x \in S : TRUE
        IN \E b \in S \ {a} : IsLabPair(a, b) /\ SplitsIntoLabPairs(S \ {a, b})

C3_LabSlotsComeInPairs ==
  \A i \in 1..Len(subjects) : SplitsIntoLabPairs(LabSlotsOf(subjects[i].id))

\* a finished run in which one subject holds two lab blocks or more
C3_Witness ==
  /\ Finished
  /\ \E i \in 1..Len(subjects) : Cardinality(LabSlotsOf(subjects[i].id)) >= 4

\* C4: when generate_schedule has finished, no faculty member has, on one
\* day, more than max_consecutive_hours assigned slots with consecutive slot
\* numbers.
C4_NoLongConsecutiveRun ==
  Finished =>
    \A f \in FacultyIds, d \in Range(AllDays) :
      ~\E n \in {SlotById(sid).slot_number : sid \in SlotsOfFacultyOn(f, d)} :
         \A k \in 0..max_consecutive_hours :
           \E sid \in SlotsOfFacultyOn(f, d) : SlotById(sid).slot_number = n + k

\* C5: every assigned slot lies on a day of its faculty member's
\* availability-day set.
C5_AssignedOnAvailableDays ==
  \A sid \in AssignedSlots :
    SlotById(sid).day
      \in _parse_availability(FacultyById(schedule[sid].faculty_id).availability)

\* a finished run that gave a lecture and a lab slot to a faculty member who
\* is not available on every working day
C5_Witness ==
  /\ Finished
  /\ \E a \in AssignedSlots, b \in AssignedSlots :
       /\ schedule[a].faculty_id = schedule[b].faculty_id
       /\ schedule[a].slot_type = "lecture"
       /\ schedule[b].slot_type = "lab"
       /\ \E d \in Range(WorkingDays(academic_config.working_days)) :
            d \notin _parse_availability(
                       FacultyById(schedule[a].faculty_id).availability)

\* C6: a step only adds entries to the schedule map: an assigned slot keeps
\* its subject, faculty and type, and every assign_slot went to a slot that
\* had no entry (the loads add up to the number of entries).
TotalLoad(load) == SumOver(load, DOMAIN load)

C6_AssignedOnceAndKept ==
  [][/\ \A sid \in DOMAIN schedule :
          sid \in DOMAIN schedule' /\ schedule'[sid] = schedule[sid]
     /\ TotalLoad(faculty_load') = Cardinality(DOMAIN schedule')]_vars

\* a finished run whose second subject got nothing while the first one keeps
\* its slots
C6_Witness ==
  /\ Finished
  /\ Len(results.details) = 2
  /\ results.details[1].lectures_scheduled + results.details[1].labs_scheduled > 0
  /\ results.details[2].lectures_scheduled + results.details[2].labs_scheduled = 0
  /\ ~results.details[2].success
  /\ Cardinality(DOMAIN schedule) > 0

\* C7: with no subject of the target semester, or no faculty, the run ends
\* with the error outcome and nothing was placed: empty schedule and room
\* maps, every load zero; it never enters the placement loops.
NothingToSchedule ==
  LoadSubjects(subject_table, semester) = <<>> \/ faculty_table = <<>>

C7_LoadFailureBeforePlacement ==
  NothingToSchedule =>
    /\ pc \in {"config", "ready", "done"}
    /\ pc = "done" =>
         /\ outcome = "error"
         /\ results = [error |-> "Failed to load data"]
         /\ schedule = <<>>
         /\ room_assignments = <<>>
         /\ \A f \in DOMAIN faculty_load : faculty_load[f] = 0

\* the error outcome with faculty loaded (their loads are there, and zero)
C7_Witness ==
  /\ pc = "done"
  /\ outcome = "error"
  /\ DOMAIN faculty_load # {}

\* C8: with a subject and a faculty member loaded, the run ends, and it ends
\* with the success outcome and a run summary; no call of schedule_lectures
\* makes more than 2 x |available_slots| attempts.
C8_TerminatesWithSummary ==
  /\ [](attempts <= 2 * Len(available_slots))
  /\ []((pc = "done" /\ ~NothingToSchedule) =>
          /\ outcome = "success"
          /\ results.total_subjects = Len(subjects)
          /\ Len(results.details) = Len(subjects))
  /\ <>(pc = "done")

\* the attempts of a lecture call used up on a calendar that has slots
C8_Witness ==
  /\ pc = "lectures"
  /\ Len(available_slots) > 0
  /\ attempts = 2 * Len(available_slots)

\* C9: a second run on the same tables, its random source seeded as for the
\* first, ends with the schedule map and the room map of the first.
C9_SecondRunRepeatsFirst ==
  (run = 2 /\ Finished) =>
    /\ schedule = first_schedule
    /\ room_assignments = first_rooms

\* C10: one subject with L lecture hours and no lab hours, L at most the
\* number of working days, one faculty member available on every working day
\* with room for L hours, on a calendar with a teaching slot on every working
\* day: the run places L lectures on L different days and counts the subject
\* as successfully scheduled.
SpreadCase ==
  /\ Len(subjects) = 1
  /\ subjects[1].lab_credits = 0
  /\ subjects[1].lecture_credits >= 1
  /\ subjects[1].lecture_credits
       <= Len(WorkingDays(academic_config.working_days))
  /\ Len(faculty) = 1
  /\ Range(WorkingDays(academic_config.working_days))
       \subseteq _parse_availability(faculty[1].availability)
  /\ faculty[1].max_hours_per_week >= subjects[1].lecture_credits
  /\ Len(available_slots) > 0

C10_LecturesSpreadOverDays ==
  (Finished /\ SpreadCase) =>
    /\ Cardinality(AssignedSlots) = subjects[1].lecture_credits
    /\ Cardinality({SlotById(sid).day : sid \in AssignedSlots})
         = subjects[1].lecture_credits
    /\ \A sid \in AssignedSlots : schedule[sid].slot_type = "lecture"
    /\ results.details[1].lectures_scheduled = subjects[1].lecture_credits
    /\ results.successfully_scheduled = 1
    /\ results.partially_scheduled = 0
    /\ results.failed = 0

\* Scenario A: 09:00-17:00, Mon-Fri, three lecture hours, all placed
C10_Witness ==
  /\ Finished
  /\ SpreadCase
  /\ academic_config = FullDayConfig
  /\ subjects[1].lecture_credits = 3
  /\ faculty[1].max_hours_per_week = DefaultMaxHours
  /\ results.successfully_scheduled = 1

\* C11: one subject with four lab hours and no lecture hours, every faculty
\* member on Monday only (with room for a block in their week), a single-shift
\* calendar whose Monday has exactly three teaching slots: the run places one
\* lab block, labs_scheduled is 2 of labs_needed 4, the subject is not a
\* success, and the summary counts it as partially scheduled.
MondaySlots == {i \in 1..Len(available_slots) : available_slots[i].day = "Monday"}

ScenarioBCase ==
  /\ Len(subjects) = 1
  /\ subjects[1].lecture_credits = 0
  /\ subjects[1].lab_credits = 4
  /\ Len(faculty) >= 1
  /\ \A i \in 1..Len(faculty) :
       /\ _parse_availability(faculty[i].availability) = {"Monday"}
       /\ faculty[i].max_hours_per_week >= 2
  /\ academic_config.shift_mode = "single"
  /\ Cardinality(MondaySlots) = 3

AllExhausted ==
  \A i \in 1..Len(faculty) :
    faculty_load[faculty[i].id] = faculty[i].max_hours_per_week

NewLectureSlots ==
  {sid \in DOMAIN schedule' :
     sid \notin DOMAIN schedule /\ schedule'[sid].slot_type = "lecture"}

FirstAccepted(sid, faculty_id) ==
  \E i \in 1..Len(faculty) :
    /\ faculty[i].id = faculty_id
    /\ faculty_load[faculty_id] < faculty[i].max_hours_per_week
    /\ is_faculty_available(faculty_id, SlotById(sid), schedule, faculty_load).ok
    /\ \A j \in 1..(i - 1) :
         ~is_faculty_available(faculty[j].id, SlotById(sid), schedule,
                               faculty_load).ok

CountedAsFailed ==
  LET subject == subjects[subject_index]
  IN (/\ pc = "labs"
      /\ results' # results
      /\ AllExhausted
      /\ subject.lecture_credits + subject.lab_credits > 0
      /\ \A sid \in DOMAIN schedule : schedule[sid].subject_id # subject.id)
     => /\ results'.failed = results.failed + 1
        /\ results'.partially_scheduled = results.partially_scheduled
        /\ results'.successfully_scheduled = results.successfully_scheduled

C12_FirstAvailableFacultyTeaches ==
  [][/\ \A sid \in NewLectureSlots : FirstAccepted(sid, schedule'[sid].faculty_id)
     /\ (pc \in {"lectures", "labs"} /\ AllExhausted) => schedule' = schedule
     /\ CountedAsFailed]_vars

\* Scenario C finished: the first faculty member took one lecture, the second
\* the next one, and the second subject found both at their maximum
C12_Witness ==
  /\ Finished
  /\ Len(faculty) = 2
  /\ AllExhausted
  /\ \E a \in AssignedSlots, b \in AssignedSlots :
       /\ schedule[a].subject_id = schedule[b].subject_id
       /\ schedule[a].faculty_id = faculty[1].id
       /\ schedule[b].faculty_id = faculty[2].id
       /\ schedule[a].slot_type = "lecture"
       /\ schedule[b].slot_type = "lecture"
  /\ results.failed = 1
  /\ results.partially_scheduled = 0

\* C13: every assigned slot either has a room of the type and capacity its
\* slot type asks for and no warning, or has no room and exactly one warning,
\* and then every room it could use is held by another slot of the same day
\* and start time; rooms and warnings exist only for slots that are assigned.
WarningsFor(sid) == {i \in 1..Len(warnings) : warnings[i] = sid}

UsableRooms(slot_type) ==
  {locations[i].id : i \in {j \in 1..Len(locations) :
     /\ locations[j].room_type = RequiredType(slot_type)
     /\ locations[j].capacity >= MinCapacity(slot_type)}}

HeldElsewhere(room_id, sid) ==
  \E other \in DOMAIN room_assignments \ {sid} :
    /\ room_assignments[other] = room_id
    /\ SlotById(other).day = SlotById(sid).day
    /\ SlotById(other).start_time = SlotById(sid).start_time

C13_NoRoomKeepsTheSlot ==
  /\ DOMAIN room_assignments \subseteq AssignedSlots
  /\ \A i \in 1..Len(warnings) : warnings[i] \in AssignedSlots
  /\ \A sid \in AssignedSlots :
       IF sid \in DOMAIN room_assignments
       THEN /\ WarningsFor(sid) = {}
            /\ room_assignments[sid] \in UsableRooms(schedule[sid].slot_type)
       ELSE /\ Cardinality(WarningsFor(sid)) = 1
            /\ \A r \in UsableRooms(schedule[sid].slot_type) :
                 HeldElsewhere(r, sid)

\* Scenario D finished: rooms, none of them a lab of 30 seats; both slots of
\* the lab block assigned, without a room and with a warning each
C13_Witness ==
  /\ Finished
  /\ locations # <<>>
  /\ UsableRooms("lab") = {}
  /\ Cardinality({sid \in AssignedSlots : schedule[sid].slot_type = "lab"}) = 2
  /\ \A sid \in AssignedSlots :
       schedule[sid].slot_type = "lab" =>
         sid \notin DOMAIN room_assignments /\ Cardinality(WarningsFor(sid)) = 1
  /\ results.warnings = 2

\* C14: no room is given to two different slots of the same day and start
\* time, also where overlapping shifts make two slots start together.
C14_NoRoomDoubleBooking ==
  \A a \in DOMAIN room_assignments, b \in DOMAIN room_assignments :
    (/\ a # b
     /\ HasSlot(a) /\ HasSlot(b)
     /\ SlotById(a).day = SlotById(b).day
     /\ SlotById(a).start_time = SlotById(b).start_time)
      => room_assignments[a] # room_assignments[b]

\* overlapping shifts, finished: two slots of one day and start time are both
\* assigned as lab slots, and the only lab room went to one of them
C14_Witness ==
  /\ Finished
  /\ \E a \in AssignedSlots, b \in AssignedSlots :
       /\ a # b
       /\ SlotById(a).day = SlotById(b).day
       /\ SlotById(a).start_time = SlotById(b).start_time
       /\ schedule[a].slot_type = "lab"
       /\ schedule[b].slot_type = "lab"
       /\ a \in DOMAIN room_assignments
       /\ b \notin DOMAIN room_assignments
       /\ UsableRooms("lab") = {room_assignments[a]}

\* ------------------------------------------------- the calendar's properties
\* the configurations generate_time_slots has succeeded for, their rows in
\* insertion order, and what the latest call for one returned
GeneratedConfigs ==
  {cid \in 1..Len(config_table) :
     \E i \in 1..Len(calls) : calls[i].config_id = cid /\ calls[i].ok}

RowsOf(cid) == SelectSeq(timetable_slots, LAMBDA r : r.config_id = cid)

LastCallFor(cid) ==
  calls[CHOOSE i \in 1..Len(calls) :
          /\ calls[i].config_id = cid
          /\ \A j \in (i + 1)..Len(calls) : calls[j].config_id # cid]

\* the length in minutes of the slot at position j of a shift
SlotLength(mode, j) ==
  IF j = 3 THEN 15 ELSE IF mode = "single" /\ j = 5 THEN 45 ELSE 60

RECURSIVE Elapsed(_, _)
Elapsed(mode, n) ==
  IF n = 0 THEN 0 ELSE Elapsed(mode, n - 1) + SlotLength(mode, n)

\* n(shift): the most slots whose lengths add up to no more than the shift
SlotsInShift(mode, shift) ==
  IF shift.end - shift.start < 0 THEN 0
  ELSE CHOOSE n \in 0..(shift.end - shift.start) :
         /\ Elapsed(mode, n) <= shift.end - shift.start
         /\ Elapsed(mode, n + 1) > shift.end - shift.start

RECURSIVE SlotsInShifts(_, _, _)
SlotsInShifts(mode, shifts, k) ==
  IF k = 0 THEN 0
  ELSE SlotsInShifts(mode, shifts, k - 1) + SlotsInShift(mode, shifts[k])

\* C15: the rows of a configuration are, shift after shift and day after day,
\* slots numbered 1..n: the first starts with the shift, each later one starts
\* where the one before ends, none ends after the shift; slot 3 is a break of
\* 15 minutes, slot 5 a break of 45 minutes in single-shift mode only, every
\* other slot a teaching slot of 60 minutes; every day of a shift gets the same
\* slots.
ShiftDayWellFormed(rows, mode, shift, day, base, n) ==
  /\ base + n <= Len(rows)
  /\ \A j \in 1..n :
       LET r == rows[base + j]
       IN /\ r.day = day
          /\ r.slot_number = j
          /\ r.start_time = IF j = 1 THEN shift.start ELSE rows[base + j - 1].end_time
          /\ r.end_time <= shift.end
          /\ r.end_time - r.start_time = SlotLength(mode, j)
          /\ r.is_break = IF j = 3 \/ (j = 5 /\ mode = "single") THEN 1 ELSE 0
  /\ (base + n < Len(rows) /\ n > 0) => rows[base + n + 1].slot_number = 1

C15_SlotsChainThroughTheShift ==
  \A cid \in GeneratedConfigs :
    LET cfg == config_table[cid]
        days == WorkingDays(cfg.working_days)
        rows == RowsOf(cid)
    IN \A k \in 1..Len(cfg.shift_timings), d \in 1..Len(days) :
         LET n == SlotsInShift(cfg.shift_mode, cfg.shift_timings[k])
         IN ShiftDayWellFormed(rows, cfg.shift_mode, cfg.shift_timings[k], days[d],
              Len(days) * SlotsInShifts(cfg.shift_mode, cfg.shift_timings, k - 1)
                + (d - 1) * n,
              n)

\* single shift 09:00-17:00 generated: nine slots on Monday, the third and
\* the fifth of them breaks; and the two-shift configuration generated: its
\* fifth slot of the first shift is a teaching hour
C15_Witness ==
  /\ GeneratedConfigs = {1, 2}
  /\ config_table[1] = FullDayConfig
  /\ \E i \in 1..Len(timetable_slots) :
       LET r == timetable_slots[i]
       IN r.config_id = 1 /\ r.slot_number = 9 /\ r.end_time = 1020
  /\ \E i \in 1..Len(timetable_slots) :
       LET r == timetable_slots[i]
       IN r.config_id = 1 /\ r.slot_number = 5 /\ r.is_break = 1
  /\ \E i \in 1..Len(timetable_slots) :
       LET r == timetable_slots[i]
       IN /\ r.config_id = 2 /\ r.slot_number = 5 /\ r.is_break = 0
          /\ r.end_time - r.start_time = 60

\* C16: the count generate_time_slots returns, and the number of rows the
\* configuration then has, is the number of working days (5 or 6) times the
\* sum over the shifts of n(shift): 45 for 09:00-17:00 Mon-Fri in one shift,
\* 54 for 08:00-13:00 and 14:00-18:00 Mon-Sat.
ExpectedSlotCount(cfg) ==
  (IF cfg.working_days = "Mon-Fri" THEN 5 ELSE 6)
    * SlotsInShifts(cfg.shift_mode, cfg.shift_timings, Len(cfg.shift_timings))

C16_SlotCountClosedForm ==
  /\ \A cid \in GeneratedConfigs :
       /\ Len(RowsOf(cid)) = ExpectedSlotCount(config_table[cid])
       /\ LastCallFor(cid).count = ExpectedSlotCount(config_table[cid])
  /\ ExpectedSlotCount(Config("Mon-Fri", "single", <<Shift(540, 1020)>>)) = 45
  /\ ExpectedSlotCount(
       Config("Mon-Sat", "multi", <<Shift(480, 780), Shift(840, 1080)>>)) = 54

\* both examples generated: 45 and 54 returned, 99 rows stored
C16_Witness ==
  /\ Len(calls) = 2
  /\ calls[1].ok /\ calls[2].ok
  /\ config_table[calls[1].config_id] =
       Config("Mon-Fri", "single", <<Shift(540, 1020)>>)
  /\ calls[1].count = 45
  /\ config_table[calls[2].config_id] =
       Config("Mon-Sat", "multi", <<Shift(480, 780), Shift(840, 1080)>>)
  /\ calls[2].count = 54
  /\ Len(timetable_slots) = 99

\* the rows of a configuration among the given rows, their
\* (day, slot_number, start_time, end_time, is_break) records and their ids
RowsIn(rows, cid) == SelectSeq(rows, LAMBDA r : r.config_id = cid)

SlotRecords(rows, cid) ==
  {<<r.day, r.slot_number, r.start_time, r.end_time, r.is_break>> :
     r \in {RowsIn(rows, cid)[i] : i \in 1..Len(RowsIn(rows, cid))}}

SlotIds(rows, cid) ==
  {RowsIn(rows, cid)[i].id : i \in 1..Len(RowsIn(rows, cid))}

\* the call a step of generate_time_slots has just logged
ThisCall == calls'[Len(calls')]

\* C17: a further generate_time_slots on a configuration leaves the same
\* records and as many rows as the call before it and returns the same count;
\* the rows from before are gone, and the rows of every other configuration
\* stay as they are.
C17_RegenerationIsIdempotent ==
  [][Len(calls') = Len(calls) + 1 =>
       \A cid \in 1..(Len(config_table) + 1) :
         IF cid # ThisCall.config_id
         THEN RowsIn(timetable_slots', cid) = RowsIn(timetable_slots, cid)
         ELSE cid \in GeneratedConfigs =>
                /\ ThisCall.ok
                /\ SlotRecords(timetable_slots', cid)
                     = SlotRecords(timetable_slots, cid)
                /\ Len(RowsIn(timetable_slots', cid))
                     = Len(RowsIn(timetable_slots, cid))
                /\ ThisCall.count = LastCallFor(cid).count
                /\ SlotIds(timetable_slots', cid)
                     \cap SlotIds(timetable_slots, cid) = {}]_vars

\* configuration 1 generated, then configuration 2, then configuration 1 again:
\* its rows are new ones and as many as before
C17_Witness ==
  /\ Len(calls) = 3
  /\ calls[1].config_id = 1 /\ calls[2].config_id = 2 /\ calls[3].config_id = 1
  /\ calls[1].count > 0 /\ calls[3].count = calls[1].count
  /\ Len(RowsOf(1)) = calls[1].count
  /\ Len(RowsOf(2)) = calls[2].count
  /\ \A a \in SlotIds(timetable_slots, 1), b \in SlotIds(timetable_slots, 2) :
       a > b

\* C18: generate_time_slots with an id no configuration has returns
\* (False, 'Configuration not found', 0) and leaves every stored slot as it
\* is; with the id of a saved configuration it succeeds with a count >= 0.
C18_UnknownConfigurationFails ==
  [][Len(calls') = Len(calls) + 1 =>
       IF ThisCall.config_id \in 1..Len(config_table)
       THEN ThisCall.ok /\ ThisCall.count >= 0
       ELSE /\ ~ThisCall.ok
            /\ ThisCall.message = "Configuration not found"
            /\ ThisCall.count = 0
            /\ timetable_slots' = timetable_slots
            /\ saved_slots' = saved_slots]_vars

\* slots generated for both configurations, then a call with an unknown id
C18_Witness ==
  /\ Len(calls) = 3
  /\ calls[1].ok /\ calls[2].ok /\ calls[1].config_id # calls[2].config_id
  /\ ~calls[3].ok /\ calls[3].config_id \notin 1..Len(config_table)
  /\ calls[3].message = "Configuration not found"
  /\ Len(timetable_slots) = calls[1].count + calls[2].count
  /\ Len(timetable_slots) > 0

\* ------------------------------------------- the availability query
\* the slot numbers of the slots a faculty member holds on a day
HeldNumbers(faculty_id, day) ==
  {SlotById(sid).slot_number : sid \in SlotsOfFacultyOn(faculty_id, day)}

\* the four checks of the availability query, each stated on its own
DayCheck(f, s) == s.day \in _parse_availability(f.availability)

TimeCheck(f, s) ==
  ~\E sid \in SlotsOfFacultyOn(f.id, s.day) :
     SlotById(sid).start_time = s.start_time

LoadCheck(f) == faculty_load[f.id] < f.max_hours_per_week

RunCheck(f, s) ==
  LET numbers == HeldNumbers(f.id, s.day) \cup {s.slot_number}
  IN ~\E n \in numbers : \A k \in 1..3 : n + k \in numbers

FirstFailingReason(f, s) ==
  IF ~DayCheck(f, s) THEN "Faculty not available on day"
  ELSE IF ~TimeCheck(f, s) THEN "Faculty already scheduled at this time"
  ELSE IF ~LoadCheck(f) THEN "Faculty weekly hour limit reached"
  ELSE IF ~RunCheck(f, s) THEN "Exceeds consecutive hours limit"
  ELSE "Available"

\* C19: is_faculty_available(f, s) is True exactly when s.day is a day of f,
\* f holds no slot of that day and start time, f's load is below the weekly
\* maximum and f's slot numbers of the day with that of s have no run of more
\* than 3; when it is False its reason is that of the first check to fail.
C19_AvailabilityIsTheFourChecks ==
  \A i \in 1..Len(faculty), k \in 1..Len(available_slots) :
    LET f == faculty[i]
        s == available_slots[k]
        answer == is_faculty_available(f.id, s, schedule, faculty_load)
    IN /\ answer.ok =
            (DayCheck(f, s) /\ TimeCheck(f, s) /\ LoadCheck(f) /\ RunCheck(f, s))
       /\ answer.reason = FirstFailingReason(f, s)

\* ------------------------------------------------- two requests at a time
\* the ids of the rows of a configuration, and its teaching rows
OwnSlotIds(cid) == SlotIds(timetable_slots, cid)

OwnTeachingRows(cid) ==
  {r \in Range(timetable_slots) : r.config_id = cid /\ r.is_break = 0}

\* an instance works on the calendar of its own configuration only
KeepsToOwnCalendar(inst) ==
  /\ inst.pc \notin {"config", "ready"} =>
       Range(inst.available_slots) = OwnTeachingRows(inst.config_id)
  /\ DOMAIN inst.schedule \subseteq OwnSlotIds(inst.config_id)
  /\ DOMAIN inst.room_assignments \subseteq DOMAIN inst.schedule
  /\ inst.pc = "saved" =>
       \A sid \in DOMAIN inst.schedule :
         /\ sid \in DOMAIN saved_slots
         /\ saved_slots[sid].subject_id = inst.schedule[sid].subject_id
         /\ saved_slots[sid].faculty_id = inst.schedule[sid].faculty_id
         /\ saved_slots[sid].slot_type = inst.schedule[sid].slot_type

\* the ids whose assignment columns a step has written
WrittenSlots ==
  {sid \in DOMAIN saved_slots' :
     sid \notin DOMAIN saved_slots \/ saved_slots'[sid] # saved_slots[sid]}

\* a step of one request leaves the instance of the other request, the rows
\* of the other configuration and the uploaded tables as they are, and writes
\* assignment columns on rows of its own configuration only
StepOfOneRequest ==
  parked' # ThisInstance =>
    /\ parked' = parked
    /\ config_id' = config_id
    /\ RowsIn(timetable_slots', parked.config_id)
         = RowsIn(timetable_slots, parked.config_id)
    /\ <<subject_table, faculty_table, locations_table, config_table>>'
         = <<subject_table, faculty_table, locations_table, config_table>>
    /\ WrittenSlots \subseteq OwnSlotIds(config_id)
    /\ \A sid \in DOMAIN saved_slots \cap OwnSlotIds(parked.config_id) :
         sid \in DOMAIN saved_slots' /\ saved_slots'[sid] = saved_slots[sid]

\* the request that ran alone before runs again from the same seed, now with
\* the other request at its side, and ends with the schedule it had alone
\* (lectures only: the order in which schedule_labs visits the days is not
\* the random source's)
SameScheduleAsAlone(inst) ==
  ( /\ run = 2
    /\ inst.config_id = calls[1].config_id
    /\ inst.pc \in {"done", "saved"}
    /\ \A i \in 1..Len(subject_table) : subject_table[i].lab_credits = 0 )
  => /\ inst.schedule = first_schedule
     /\ inst.room_assignments = first_rooms

\* C20: with two requests for different configurations running at once, each
\* on its own TimetableScheduler and their steps in any order, each request
\* ends with the schedule it produces when it runs alone; each instance loads
\* and assigns the slots of its own configuration only, no step of one changes
\* what the other holds or the rows of the other's configuration, and
\* save_schedule writes the assignment columns of rows of its own
\* configuration only.
C20_RequestsDoNotInterfere ==
  /\ [](parked # <<>> =>
          /\ parked.config_id # config_id
          /\ KeepsToOwnCalendar(ThisInstance)
          /\ KeepsToOwnCalendar(parked)
          /\ SameScheduleAsAlone(ThisInstance)
          /\ SameScheduleAsAlone(parked))
  /\ [][parked # <<>> => StepOfOneRequest]_vars

\* ------------------------------------------------------ the room of a slot
RoomById(room_id) ==
  locations[CHOOSE i \in 1..Len(locations) : locations[i].id = room_id]

\* C21: the room of a slot has the type its slot type asks for (Lab for a lab
\* slot, Classroom otherwise) and at least the minimum capacity (30 for a lab,
\* 50 otherwise), no other slot of the same day and start time holds it, and
\* no room of that type and capacity that is free at that time is strictly
\* closer to the minimum.
C21_RoomIsTheClosestFit ==
  \A sid \in DOMAIN room_assignments :
    LET room == RoomById(room_assignments[sid])
        kind == schedule[sid].slot_type
        least == IF kind = "lab" THEN 30 ELSE 50
    IN /\ room.room_type = (IF kind = "lab" THEN "Lab" ELSE "Classroom")
       /\ room.capacity >= least
       /\ ~HeldElsewhere(room.id, sid)
       /\ \A i \in 1..Len(locations) :
            ( /\ locations[i].room_type = room.room_type
              /\ locations[i].capacity >= least
              /\ ~HeldElsewhere(locations[i].id, sid) )
            => locations[i].capacity - least >= room.capacity - least

\* finished with a lecture in the classroom of 50 seats, the one of 60 free at
\* that time, and a lab slot in the lab of 40 seats
C21_Witness ==
  /\ Finished
  /\ \E sid \in DOMAIN room_assignments :
       /\ schedule[sid].slot_type = "lecture"
       /\ RoomById(room_assignments[sid]).capacity = 50
       /\ \E i \in 1..Len(locations) :
            /\ locations[i].room_type = "Classroom"
            /\ locations[i].capacity = 60
            /\ ~HeldElsewhere(locations[i].id, sid)
  /\ \E sid \in DOMAIN room_assignments :
       /\ schedule[sid].slot_type = "lab"
       /\ RoomById(room_assignments[sid]).capacity = 40

\* --------------------------------------------------- the conflict report
\* the slots a faculty member, or a room, has at a day and start time
SlotsOfFacultyAt(f, day, time) ==
  {sid \in DOMAIN schedule :
     /\ schedule[sid].faculty_id = f
     /\ SlotById(sid).day = day /\ SlotById(sid).start_time = time}

SlotsOfRoomAt(r, day, time) ==
  {sid \in DOMAIN room_assignments :
     /\ room_assignments[sid] = r
     /\ SlotById(sid).day = day /\ SlotById(sid).start_time = time}

Reported(type, id, day, time) ==
  \E c \in conflicts :
    c.type = type /\ c.id = id /\ c.day = day /\ c.time = time

\* C22: after detect_conflicts the list holds a faculty_double_booking for a
\* faculty member, day and start time exactly when two or more of that
\* member's slots share them, a room_double_booking for a room, day and start
\* time exactly when two or more slots in that room share them, and nothing
\* else, whatever the list held before; the call leaves the schedule and the
\* room map as they were.
C22_ConflictsAreTheDoubleBookings ==
  /\ [](pc = "checked" =>
          /\ \A i \in 1..Len(faculty), k \in 1..Len(available_slots) :
               LET f == faculty[i].id
                   s == available_slots[k]
               IN Reported("faculty_double_booking", f, s.day, s.start_time)
                    <=> Cardinality(SlotsOfFacultyAt(f, s.day, s.start_time)) >= 2
          /\ \A i \in 1..Len(locations), k \in 1..Len(available_slots) :
               LET r == locations[i].id
                   s == available_slots[k]
               IN Reported("room_double_booking", r, s.day, s.start_time)
                    <=> Cardinality(SlotsOfRoomAt(r, s.day, s.start_time)) >= 2
          /\ \A c \in conflicts :
               \/ /\ c.type = "faculty_double_booking"
                  /\ Cardinality(SlotsOfFacultyAt(c.id, c.day, c.time)) >= 2
               \/ /\ c.type = "room_double_booking"
                  /\ Cardinality(SlotsOfRoomAt(c.id, c.day, c.time)) >= 2)
  /\ [][pc' = "checked" =>
          schedule' = schedule /\ room_assignments' = room_assignments]_vars

\* called on maps where faculty member 1 has the two
\* slots of a day that start together, one room holds both of them, and
\* faculty member 2 has two slots that do not collide: one conflict of each
\* type, nothing about faculty member 2 and nothing of a list from before
C22_Witness ==
  /\ pc = "checked"
  /\ \E a \in DOMAIN schedule, b \in DOMAIN schedule :
       /\ a # b
       /\ SlotById(a).day = SlotById(b).day
       /\ SlotById(a).start_time = SlotById(b).start_time
       /\ schedule[a].faculty_id = 1 /\ schedule[b].faculty_id = 1
       /\ a \in DOMAIN room_assignments /\ b \in DOMAIN room_assignments
       /\ room_assignments[a] = room_assignments[b]
  /\ Cardinality({sid \in DOMAIN schedule : schedule[sid].faculty_id = 2}) = 2
  /\ Cardinality(conflicts) = 2
  /\ conflicts \cap StaleConflicts = {}

\* ------------------------------------------------------- the run summary
\* what the schedule holds of a subject
PlacedSlots(subject_id, slot_type) ==
  {sid \in DOMAIN schedule :
     /\ schedule[sid].subject_id = subject_id
     /\ schedule[sid].slot_type = slot_type}

SubjectOf(detail) ==
  subjects[CHOOSE i \in 1..Len(subjects) : subjects[i].id = detail.subject_id]

\* the three ways a subject can end, from what was placed
FullyPlaced(detail) ==
  /\ Cardinality(PlacedSlots(detail.subject_id, "lecture"))
       = SubjectOf(detail).lecture_credits
  /\ Cardinality(PlacedSlots(detail.subject_id, "lab"))
       >= 2 * ((SubjectOf(detail).lab_credits + 1) \div 2)

NothingPlaced(detail) ==
  /\ ~FullyPlaced(detail)
  /\ PlacedSlots(detail.subject_id, "lecture") = {}
  /\ PlacedSlots(detail.subject_id, "lab") = {}

DetailsWhere(P(_)) ==
  Cardinality({i \in 1..Len(results.details) : P(results.details[i])})

PartlyPlaced(detail) == ~FullyPlaced(detail) /\ ~NothingPlaced(detail)

\* C23: in the summary of a successful run the three counts add up to
\* total_subjects and to the number of detail records, one record a subject;
\* successfully_scheduled counts the subjects with every lecture hour and at
\* least ceil(lab hours / 2) lab blocks placed, failed those that are not
\* successful and have no hour placed, partially_scheduled the others.
C23_EverySubjectCountedOnce ==
  Finished =>
    /\ results.successfully_scheduled + results.partially_scheduled
         + results.failed = results.total_subjects
    /\ Len(results.details) = results.total_subjects
    /\ Len(subjects) = results.total_subjects
    /\ \A i \in 1..Len(subjects) :
         results.details[i].subject_id = subjects[i].id
    /\ \A i \in 1..Len(results.details) :
         results.details[i].success <=> FullyPlaced(results.details[i])
    /\ results.successfully_scheduled = DetailsWhere(FullyPlaced)
    /\ results.failed = DetailsWhere(NothingPlaced)
    /\ results.partially_scheduled = DetailsWhere(PartlyPlaced)

\* two subjects, one placed in full, the other with its lab block placed and
\* its lecture not
C23_Witness ==
  /\ Finished
  /\ results.total_subjects = 2
  /\ results.successfully_scheduled = 1
  /\ results.partially_scheduled = 1
  /\ \E i \in 1..Len(results.details) :
       /\ results.details[i].lectures_scheduled < results.details[i].lectures_needed
       /\ results.details[i].labs_scheduled > 0
       /\ ~results.details[i].success

\* ------------------------------------------------------------------- C24
\* the position of a subject in the sorted list generate_schedule walks
PositionOf(subject_id) ==
  CHOOSE i \in 1..Len(subjects) : subjects[i].id = subject_id

\* non-increasing lecture + lab hours, ties by non-increasing lab hours
InPriorityOrder(seq) ==
  \A i \in 1..Len(seq) : \A j \in (i + 1)..Len(seq) :
    LET ti == seq[i].lecture_credits + seq[i].lab_credits
        tj == seq[j].lecture_credits + seq[j].lab_credits
    IN /\ ti >= tj
       /\ ti = tj => seq[i].lab_credits >= seq[j].lab_credits

\* the slots a step adds to the schedule
NewlyPlaced == DOMAIN schedule' \ DOMAIN schedule

\* C24: placements happen subject by subject in priority order (non-increasing
\* lecture + lab hours, ties by non-increasing lab hours); every placement is
\* for the subject whose turn it is, no later subject has a placement yet, and
\* a lecture of a subject is never placed after one of its lab slots.
C24_PlacementsFollowPriority ==
  [][\A sid \in NewlyPlaced :
       LET entry == schedule'[sid]
       IN /\ InPriorityOrder(subjects)
          /\ subject_index \in 1..Len(subjects)
          /\ subject_index' >= subject_index
          /\ entry.subject_id = subjects[subject_index].id
          /\ \A other \in DOMAIN schedule :
               PositionOf(schedule[other].subject_id) <= subject_index
          /\ entry.slot_type = "lecture" =>
               \A other \in DOMAIN schedule' :
                 schedule'[other].subject_id = entry.subject_id
                   => schedule'[other].slot_type = "lecture"]_vars

\* two subjects with the same total hours: the sort moved the one with the lab
\* hours from the second row of the table to the front, its block was placed,
\* and then the lectures of the other one
C24_Witness ==
  /\ Finished
  /\ Len(subjects) = 2
  /\ subjects[1].id > subjects[2].id
  /\ subjects[1].lecture_credits + subjects[1].lab_credits
       = subjects[2].lecture_credits + subjects[2].lab_credits
  /\ PlacedSlots(subjects[1].id, "lab") # {}
  /\ PlacedSlots(subjects[2].id, "lecture") # {}

\* ------------------------------------------------------------------- C25
\* C25: within one configuration no two stored slots have the same day and
\* the same slot number, in single-shift and in multi-shift mode (the pair
\* find_consecutive_slots looks a slot up by).
C25_DayAndNumberIdentifyOneSlot ==
  \A cid \in GeneratedConfigs :
    \A r \in Range(RowsOf(cid)) : \A q \in Range(RowsOf(cid)) :
      (r.day = q.day /\ r.slot_number = q.slot_number) => r.id = q.id

\* ------------------------------------------------------------------- C26
\* the shift a stored slot was generated for: the rows of a configuration are
\* written shift after shift, every working day of a shift in turn
ShiftOf(slot_id) ==
  LET cfg == config_table[config_id]
      rows == RowsOf(config_id)
      days == Len(WorkingDays(cfg.working_days))
      pos == CHOOSE i \in 1..Len(rows) : rows[i].id = slot_id
  IN CHOOSE k \in 1..Len(cfg.shift_timings) :
       /\ pos > days * SlotsInShifts(cfg.shift_mode, cfg.shift_timings, k - 1)
       /\ pos <= days * SlotsInShifts(cfg.shift_mode, cfg.shift_timings, k)

\* b follows a at once: same day, same shift, b starts when a ends
FollowsAtOnce(a, b) ==
  /\ SlotById(a).day = SlotById(b).day
  /\ ShiftOf(a) = ShiftOf(b)
  /\ SlotById(b).start_time = SlotById(a).end_time

RECURSIVE SplitsIntoAdjacentPairs(_)
SplitsIntoAdjacentPairs(S) ==
  \/ S = {}
  \/ /\ S # {}
     /\ LET a == CHOOSE x \in S : TRUE
        IN \E b \in S \ {a} :
             /\ FollowsAtOnce(a, b) \/ FollowsAtOnce(b, a)
             /\ SplitsIntoAdjacentPairs(S \ {a, b})

\* C26: the lab slots of a subject are blocks of two slots adjacent in time:
\* same day, same shift, the second starting when the first ends, on
\* single-shift and on multi-shift calendars.
C26_BlocksAreAdjacentInTime ==
  \A i \in 1..Len(subjects) : SplitsIntoAdjacentPairs(LabSlotsOf(subjects[i].id))

\* ------------------------------------------------------------------- C27
\* the unassigned teaching slots some eligible faculty member is available for
FeasibleFreeSlots ==
  {i \in FreeSlots(schedule) :
     FirstAvailableFaculty({available_slots[i].id}, schedule, faculty_load) # 0}

\* schedule_lectures returns with fewer hours placed than the subject needs
LecturesReturnShort ==
  /\ pc = "lectures"
  /\ pc' = "labs"
  /\ scheduled < subjects[subject_index].lecture_credits

\* C27: schedule_lectures returns fewer placed hours than the subject's
\* lecture hours only if, when it returns, no unassigned teaching slot is left
\* for which some faculty member passes is_faculty_available; a free feasible
\* slot on a day the subject already uses is still used.
C27_LecturesShortOnlyWhenNothingFits ==
  [][LecturesReturnShort => FeasibleFreeSlots = {}]_vars

\* ------------------------------------------------------------------- C28
\* the pairs of unassigned teaching slots of one day and one shift, numbered
\* n and n + 1, that one faculty member is available for
FeasibleFreePairs ==
  {pair \in FreeSlots(schedule) \X FreeSlots(schedule) :
     LET a == available_slots[pair[1]]
         b == available_slots[pair[2]]
     IN /\ a.day = b.day
        /\ b.slot_number = a.slot_number + 1
        /\ ShiftOf(a.id) = ShiftOf(b.id)
        /\ BlockFaculty(<<a.id, b.id>>, schedule, faculty_load) # 0}

\* schedule_labs returns with fewer blocks placed than the subject needs
LabsReturnShort ==
  /\ pc = "labs"
  /\ pc' # "labs"
  /\ scheduled_blocks < blocks_needed(subjects[subject_index])

\* C28: schedule_labs returns fewer than ceil(lab hours / 2) blocks only if,
\* when it returns, no two unassigned teaching slots of one day with
\* consecutive slot numbers in the same shift are left that one faculty member
\* is available for, on multi-shift calendars too.
C28_LabsShortOnlyWhenNoPairFits ==
  [][LabsReturnShort => FeasibleFreePairs = {}]_vars

\* ------------------------------------------------------------------- C29
\* what save_schedule stores on a slot the run assigned
StoredFor(sid) ==
  [subject_id |-> schedule[sid].subject_id,
   faculty_id |-> schedule[sid].faculty_id,
   slot_type |-> schedule[sid].slot_type,
   room_id |-> IF sid \in DOMAIN room_assignments
               THEN room_assignments[sid] ELSE 0]

\* C29: after generation runs on one configuration, each followed by
\* save_schedule and none by a regeneration of the slots, the stored
\* assignments are the schedule of the latest run: a slot it assigned stores
\* its subject, faculty, type and room, and a slot it left unassigned stores no
\* subject and no faculty.
C29_StoredIsTheLatestSchedule ==
  pc = "saved" =>
    \A i \in 1..Len(timetable_slots) :
      LET sid == timetable_slots[i].id
      IN IF sid \in DOMAIN schedule
         THEN sid \in DOMAIN saved_slots /\ saved_slots[sid] = StoredFor(sid)
         ELSE sid \notin DOMAIN saved_slots

\* ------------------------------------------------------------------- C30
\* C30: for every subject of the summary the hours reported as scheduled do
\* not exceed the hours requested: lectures_scheduled <= lectures_needed and
\* labs_scheduled <= labs_needed, for even and for odd lab hours.
C30_ScheduledWithinRequested ==
  Finished =>
    \A i \in 1..Len(results.details) :
      /\ results.details[i].lectures_scheduled <= results.details[i].lectures_needed
      /\ results.details[i].labs_scheduled <= results.details[i].labs_needed

====
